---- MODULE Spec2Model ----
(***************************************************************************)
(* The streak ledger (contracts/src/StreakTracker.sol) and the admission   *)
(* gate in front of it (ShipResolver.onAttest), as one state machine.      *)
(* Every externally invoked operation is one atomic step (an EVM           *)
(* transaction): it either commits all of its writes and events or         *)
(* reverts with none.                                                      *)
(***************************************************************************)
EXTENDS Integers, Sequences, FiniteSets, TLC

\* ------------------------------------------------------------ constants

\* StreakTracker.ONE_DAY = 24 hours, in seconds.
ONE_DAY == 86400

\* The identities the calls are drawn from (the test suite's constants);
\* 0 is the invalid identity.
FID_ALICE == 1
FID_BOB == 2

Fids == {FID_ALICE, FID_BOB}

\* Callers: the ledger's owner, the ShipResolver contract (the gate), and an
\* externally owned account that the owner may authorize as a writer.
Owner == "owner"
Gate == "gate"
Writer == "writer"
Addrs == {Owner, Gate, Writer}

\* ShipResolver's configuration.
MIN_SHIP_INTERVAL == 86400
MIN_TEXT_LENGTH == 30
MAX_TEXT_LENGTH == 240
MAX_LINKS == 10

\* The project schema the gate is deployed with, another schema, and the
\* reference UID of a project attestation (the resolver tests' constants).
PROJECT_SCHEMA_UID == 100
SHIP_SCHEMA_UID == 200
PROJECT_REF_UID == 1000

\* The last epoch day the clock may reach (the first is day 1): for the
\* ledger on its own, and for the ledger behind the gate.
MaxDay == 4
MaxGateDay == 4

\* block.timestamp takes the first and the last second of each day.
DayPoints(maxDay) == {d * ONE_DAY + o : d \in 1..maxDay, o \in {0, ONE_DAY - 1}}
TimePoints == DayPoints(MaxDay)
GateTimePoints == DayPoints(MaxGateDay)

VARIABLES
    now,                  \* block.timestamp
    userData,             \* StreakTracker.userData: fid -> UserStreakData
    authorizedResolvers,  \* StreakTracker.authorizedResolvers
    lastShipTimestamp,    \* ShipResolver.lastShipTimestamp: fid -> time of last admission
    last,                 \* receipt of the last transaction or call
    shipDays,             \* history: per fid, the epoch day of each admitted ship
    maxWritten,           \* history: per fid, the largest value written to currentStreak
    frames                \* call stack of the onAttest calls in progress (innermost last)

vars == <<now, userData, authorizedResolvers, lastShipTimestamp, last, shipDays,
          maxWritten, frames>>

\* ------------------------------------------------------------ ledger helpers

\* Variants: comparing the timestamps themselves, and comparing a day
\* number with a timestamp.
_isSameDay_exact(timestamp1, timestamp2) ==
    timestamp1 = timestamp2

_isSameDay_units(timestamp1, timestamp2) ==
    (timestamp1 \div ONE_DAY) = timestamp2

\* Variant: less than one whole day elapsed, instead of the same calendar day.
_isSameDay_elapsed(timestamp1, timestamp2) ==
    timestamp2 - timestamp1 < ONE_DAY

\* StreakTracker._isSameDay
_isSameDay(timestamp1, timestamp2) ==
    (timestamp1 \div ONE_DAY) = (timestamp2 \div ONE_DAY)

\* Variant: one whole day elapsed, instead of the next calendar day.
_isConsecutiveDay_elapsed(timestamp1, timestamp2) ==
    (timestamp2 - timestamp1) \div ONE_DAY = 1

\* Variant: the two days are one apart, in either direction.
_isConsecutiveDay_eitherWay(timestamp1, timestamp2) ==
    LET day1 == timestamp1 \div ONE_DAY
        day2 == timestamp2 \div ONE_DAY
    IN  day2 = day1 + 1 \/ day1 = day2 + 1

\* StreakTracker._isConsecutiveDay
_isConsecutiveDay(timestamp1, timestamp2) ==
    LET day1 == timestamp1 \div ONE_DAY
        day2 == timestamp2 \div ONE_DAY
    IN  day2 = day1 + 1

\* A never-written UserStreakData slot.
EmptyUser ==
    [currentStreak |-> 0, longestStreak |-> 0, totalShips |-> 0,
     lastShipTimestamp |-> 0, shipUIDs |-> <<>>]

\* ------------------------------------------------------------ events

\* IStreakTracker.StreakBroken(fid, previousStreak, lastShipTimestamp)
StreakBroken(fid, previousStreak, lastShipTime) ==
    [name |-> "StreakBroken", fid |-> fid, previousStreak |-> previousStreak,
     lastShipTimestamp |-> lastShipTime]

\* IStreakTracker.ShipRecorded(fid, attestationUID, timestamp, currentStreak)
ShipRecorded(fid, attestationUID, timestamp, currentStreak) ==
    [name |-> "ShipRecorded", fid |-> fid, attestationUID |-> attestationUID,
     timestamp |-> timestamp, currentStreak |-> currentStreak]

\* StreakTracker.ResolverAuthorizationChanged(resolver, authorized)
ResolverAuthorizationChanged(resolver, authorized) ==
    [name |-> "ResolverAuthorizationChanged", resolver |-> resolver,
     authorized |-> authorized]

\* ------------------------------------------------------------ recordShip

\* A reverted call: no write, no event.
Revert(error, user) ==
    [err |-> error, user |-> user, events |-> <<>>]

\* Variant: a broken streak starts over at 0.
calculateStreak_zero(user, currentTime) ==
    IF user.lastShipTimestamp = 0
    THEN [revert |-> FALSE, newStreak |-> 1, broken |-> FALSE]
    ELSE IF _isConsecutiveDay(user.lastShipTimestamp, currentTime)
    THEN [revert |-> FALSE, newStreak |-> user.currentStreak + 1, broken |-> FALSE]
    ELSE IF _isSameDay(user.lastShipTimestamp, currentTime)
    THEN [revert |-> TRUE, newStreak |-> 0, broken |-> FALSE]
    ELSE [revert |-> FALSE, newStreak |-> 0, broken |-> TRUE]

\* The "Calculate streak" chain of recordShip: the new streak, whether the
\* call reverts there, and whether StreakBroken is emitted.
calculateStreak(user, currentTime) ==
    IF user.lastShipTimestamp = 0
    THEN [revert |-> FALSE, newStreak |-> 1, broken |-> FALSE]
    ELSE IF _isConsecutiveDay(user.lastShipTimestamp, currentTime)
    THEN [revert |-> FALSE, newStreak |-> user.currentStreak + 1, broken |-> FALSE]
    ELSE IF _isSameDay(user.lastShipTimestamp, currentTime)
    THEN [revert |-> TRUE, newStreak |-> 0, broken |-> FALSE]
    ELSE [revert |-> FALSE, newStreak |-> 1, broken |-> TRUE]

\* Variants: always overwritten, and the comparison reversed.
updateLongest_overwrite(newStreak, longestStreak) ==
    newStreak

updateLongest_reversed(newStreak, longestStreak) ==
    IF newStreak < longestStreak THEN newStreak ELSE longestStreak

\* "Update longest streak if current is higher"
updateLongest(newStreak, longestStreak) ==
    IF newStreak > longestStreak THEN newStreak ELSE longestStreak

\* Variant: the UID is not pushed.
updateUser_noPush(user, newStreak, currentTime, attestationUID) ==
    [currentStreak |-> newStreak,
     longestStreak |-> updateLongest(newStreak, user.longestStreak),
     totalShips |-> user.totalShips + 1,
     lastShipTimestamp |-> currentTime,
     shipUIDs |-> user.shipUIDs]

\* Variant: the attestation UID is stored in front of the earlier ones.
updateUser_prepend(user, newStreak, currentTime, attestationUID) ==
    [currentStreak |-> newStreak,
     longestStreak |-> updateLongest(newStreak, user.longestStreak),
     totalShips |-> user.totalShips + 1,
     lastShipTimestamp |-> currentTime,
     shipUIDs |-> <<attestationUID>> \o user.shipUIDs]

\* "Update user data": the slot after an admitted ship.
updateUser(user, newStreak, currentTime, attestationUID) ==
    [currentStreak |-> newStreak,
     longestStreak |-> updateLongest(newStreak, user.longestStreak),
     totalShips |-> user.totalShips + 1,
     lastShipTimestamp |-> currentTime,
     shipUIDs |-> Append(user.shipUIDs, attestationUID)]

\* Variant: StreakBroken reports the streak after the reset.
recordShipBody_emitAfter(fid, attestationUID, user, currentTime) ==
    IF user.lastShipTimestamp > 0 /\ _isSameDay(user.lastShipTimestamp, currentTime)
    THEN Revert("AlreadyShippedToday", user)
    ELSE LET c == calculateStreak(user, currentTime) IN
         IF c.revert THEN Revert("AlreadyShippedToday", user)
         ELSE [err |-> "ok",
               user |-> updateUser(user, c.newStreak, currentTime, attestationUID),
               events |->
                   (IF c.broken
                    THEN <<StreakBroken(fid, c.newStreak, user.lastShipTimestamp)>>
                    ELSE <<>>)
                   \o <<ShipRecorded(fid, attestationUID, currentTime, c.newStreak)>>]

\* The part of recordShip after the input checks, on the slot of fid.
recordShipBody(fid, attestationUID, user, currentTime) ==
    IF user.lastShipTimestamp > 0 /\ _isSameDay(user.lastShipTimestamp, currentTime)
    THEN Revert("AlreadyShippedToday", user)
    ELSE LET c == calculateStreak(user, currentTime) IN
         IF c.revert THEN Revert("AlreadyShippedToday", user)
         ELSE [err |-> "ok",
               user |-> updateUser(user, c.newStreak, currentTime, attestationUID),
               events |->
                   (IF c.broken
                    THEN <<StreakBroken(fid, user.currentStreak, user.lastShipTimestamp)>>
                    ELSE <<>>)
                   \o <<ShipRecorded(fid, attestationUID, currentTime, c.newStreak)>>]

\* Variant of recordShip that validates its arguments before it looks at the
\* caller (the modifier's check moved into the body, after the input checks).
recordShip_inputsFirst(sender, fid, attestationUID) ==
    IF fid = 0 THEN Revert("InvalidFID", EmptyUser)
    ELSE IF attestationUID = 0 THEN Revert("InvalidAttestationUID", userData[fid])
    ELSE IF ~authorizedResolvers[sender] THEN Revert("UnauthorizedResolver", EmptyUser)
    ELSE recordShipBody(fid, attestationUID, userData[fid], now)

\* Variant of recordShip with the two input checks in the opposite order.
recordShip_uidFirst(sender, fid, attestationUID) ==
    IF ~authorizedResolvers[sender] THEN Revert("UnauthorizedResolver", EmptyUser)
    ELSE IF attestationUID = 0 THEN Revert("InvalidAttestationUID", EmptyUser)
    ELSE IF fid = 0 THEN Revert("InvalidFID", EmptyUser)
    ELSE recordShipBody(fid, attestationUID, userData[fid], now)

\* StreakTracker.recordShip called by sender at block.timestamp = now: the
\* error ("ok" if none), the slot of fid afterwards and the events emitted.
recordShip(sender, fid, attestationUID) ==
    IF ~authorizedResolvers[sender] THEN Revert("UnauthorizedResolver", EmptyUser)
    ELSE IF fid = 0 THEN Revert("InvalidFID", EmptyUser)
    ELSE IF attestationUID = 0 THEN Revert("InvalidAttestationUID", userData[fid])
    ELSE recordShipBody(fid, attestationUID, userData[fid], now)

\* ------------------------------------------------------------ the gate

\* ShipResolver.ShipCreated(fid, attestationUID, projectRefUID, timestamp)
ShipCreated(fid, attestationUID, projectRefUID, timestamp) ==
    [name |-> "ShipCreated", fid |-> fid, attestationUID |-> attestationUID,
     projectRefUID |-> projectRefUID, timestamp |-> timestamp]

\* What the external registry (EAS.getAttestation) may answer for a
\* reference: a live project attestation, no attestation at all, a revoked
\* one, and one of another schema.
RegistryAnswers ==
    {[time |-> ONE_DAY, revocationTime |-> 0, schema |-> PROJECT_SCHEMA_UID],
     [time |-> 0, revocationTime |-> 0, schema |-> 0],
     [time |-> ONE_DAY, revocationTime |-> ONE_DAY, schema |-> PROJECT_SCHEMA_UID],
     [time |-> ONE_DAY, revocationTime |-> 0, schema |-> SHIP_SCHEMA_UID]}

\* Variant of _isValidProjectAttestation that does not look at revocation.
_isValidProjectAttestation_noRevocation(attestation) ==
    /\ attestation.time > 0
    /\ attestation.schema = PROJECT_SCHEMA_UID

\* ShipResolver._isValidProjectAttestation, on the registry's answer.
_isValidProjectAttestation(attestation) ==
    /\ attestation.time > 0
    /\ attestation.revocationTime = 0
    /\ attestation.schema = PROJECT_SCHEMA_UID

\* Variant of validateShip that decodes the data and checks the identity
\* before it looks at the project reference.
validateShip_fidFirst(refUID, project, fid, textLength, links) ==
    IF fid = 0 THEN "InvalidFID"
    ELSE IF refUID = 0 THEN "MissingProjectReference"
    ELSE IF ~_isValidProjectAttestation(project) THEN "InvalidProjectReference"
    ELSE IF textLength = 0 THEN "EmptyShipText"
    ELSE IF textLength < MIN_TEXT_LENGTH THEN "ShipTextTooShort"
    ELSE IF textLength > MAX_TEXT_LENGTH THEN "ShipTextTooLong"
    ELSE IF links > MAX_LINKS THEN "TooManyLinks"
    ELSE LET lastShip == lastShipTimestamp[fid] IN
         IF lastShip > 0 /\ now < lastShip THEN "Panic"
         ELSE IF lastShip > 0 /\ now - lastShip < MIN_SHIP_INTERVAL
         THEN "AlreadyShippedToday"
         ELSE "ok"

\* Variant of validateShip with exclusive text length bounds.
validateShip_exclusive(refUID, project, fid, textLength, links) ==
    IF refUID = 0 THEN "MissingProjectReference"
    ELSE IF ~_isValidProjectAttestation(project) THEN "InvalidProjectReference"
    ELSE IF fid = 0 THEN "InvalidFID"
    ELSE IF textLength = 0 THEN "EmptyShipText"
    ELSE IF textLength <= MIN_TEXT_LENGTH THEN "ShipTextTooShort"
    ELSE IF textLength >= MAX_TEXT_LENGTH THEN "ShipTextTooLong"
    ELSE IF links > MAX_LINKS THEN "TooManyLinks"
    ELSE LET lastShip == lastShipTimestamp[fid] IN
         IF lastShip > 0 /\ now < lastShip THEN "Panic"
         ELSE IF lastShip > 0 /\ now - lastShip < MIN_SHIP_INTERVAL
         THEN "AlreadyShippedToday"
         ELSE "ok"

\* Variant of validateShip that refuses a ship with exactly MAX_LINKS links.
validateShip_linksExclusive(refUID, project, fid, textLength, links) ==
    IF refUID = 0 THEN "MissingProjectReference"
    ELSE IF ~_isValidProjectAttestation(project) THEN "InvalidProjectReference"
    ELSE IF fid = 0 THEN "InvalidFID"
    ELSE IF textLength = 0 THEN "EmptyShipText"
    ELSE IF textLength < MIN_TEXT_LENGTH THEN "ShipTextTooShort"
    ELSE IF textLength > MAX_TEXT_LENGTH THEN "ShipTextTooLong"
    ELSE IF links >= MAX_LINKS THEN "TooManyLinks"
    ELSE LET lastShip == lastShipTimestamp[fid] IN
         IF lastShip > 0 /\ now < lastShip THEN "Panic"
         ELSE IF lastShip > 0 /\ now - lastShip < MIN_SHIP_INTERVAL
         THEN "AlreadyShippedToday"
         ELSE "ok"

\* Variant of validateShip whose throttle still refuses a ship exactly
\* MIN_SHIP_INTERVAL after the last admitted one.
validateShip_intervalExclusive(refUID, project, fid, textLength, links) ==
    IF refUID = 0 THEN "MissingProjectReference"
    ELSE IF ~_isValidProjectAttestation(project) THEN "InvalidProjectReference"
    ELSE IF fid = 0 THEN "InvalidFID"
    ELSE IF textLength = 0 THEN "EmptyShipText"
    ELSE IF textLength < MIN_TEXT_LENGTH THEN "ShipTextTooShort"
    ELSE IF textLength > MAX_TEXT_LENGTH THEN "ShipTextTooLong"
    ELSE IF links > MAX_LINKS THEN "TooManyLinks"
    ELSE LET lastShip == lastShipTimestamp[fid] IN
         IF lastShip > 0 /\ now < lastShip THEN "Panic"
         ELSE IF lastShip > 0 /\ now - lastShip <= MIN_SHIP_INTERVAL
         THEN "AlreadyShippedToday"
         ELSE "ok"

\* Variant: the gate without its own throttle, relying on the ledger's rule.
validateShip_noThrottle(refUID, project, fid, textLength, links) ==
    IF refUID = 0 THEN "MissingProjectReference"
    ELSE IF ~_isValidProjectAttestation(project) THEN "InvalidProjectReference"
    ELSE IF fid = 0 THEN "InvalidFID"
    ELSE IF textLength = 0 THEN "EmptyShipText"
    ELSE IF textLength < MIN_TEXT_LENGTH THEN "ShipTextTooShort"
    ELSE IF textLength > MAX_TEXT_LENGTH THEN "ShipTextTooLong"
    ELSE IF links > MAX_LINKS THEN "TooManyLinks"
    ELSE "ok"

\* The gate's validation (everything before its first write): the error of
\* the first failing check, "ok" if all pass.
validateShip(refUID, project, fid, textLength, links) ==
    IF refUID = 0 THEN "MissingProjectReference"
    ELSE IF ~_isValidProjectAttestation(project) THEN "InvalidProjectReference"
    ELSE IF fid = 0 THEN "InvalidFID"
    ELSE IF textLength = 0 THEN "EmptyShipText"
    ELSE IF textLength < MIN_TEXT_LENGTH THEN "ShipTextTooShort"
    ELSE IF textLength > MAX_TEXT_LENGTH THEN "ShipTextTooLong"
    ELSE IF links > MAX_LINKS THEN "TooManyLinks"
    ELSE LET lastShip == lastShipTimestamp[fid] IN
         IF lastShip > 0 /\ now < lastShip THEN "Panic"
         ELSE IF lastShip > 0 /\ now - lastShip < MIN_SHIP_INTERVAL
         THEN "AlreadyShippedToday"
         ELSE "ok"

\* Variant of onAttest that catches a revert of the ledger call (try/catch)
\* and reports the ship as created nevertheless.
onAttest_swallow(uid, refUID, project, fid, textLength, links) ==
    LET v == validateShip(refUID, project, fid, textLength, links) IN
    IF v # "ok" THEN Revert(v, EmptyUser)
    ELSE LET r == recordShip(Gate, fid, uid) IN
         IF r.err # "ok"
         THEN [err |-> "ok", user |-> userData[fid],
               events |-> <<ShipCreated(fid, uid, refUID, now)>>]
         ELSE [err |-> "ok", user |-> r.user,
               events |-> r.events \o <<ShipCreated(fid, uid, refUID, now)>>]

\* Variant of onAttest that emits ShipCreated before it calls the ledger.
onAttest_createdFirst(uid, refUID, project, fid, textLength, links) ==
    LET v == validateShip(refUID, project, fid, textLength, links) IN
    IF v # "ok" THEN Revert(v, EmptyUser)
    ELSE LET r == recordShip(Gate, fid, uid) IN
         IF r.err # "ok" THEN Revert(r.err, EmptyUser)
         ELSE [err |-> "ok", user |-> r.user,
               events |-> <<ShipCreated(fid, uid, refUID, now)>> \o r.events]

\* ShipResolver.onAttest at block.timestamp = now: the error ("ok" if
\* none), whether the throttle slot of fid is written, the ledger slot of
\* fid afterwards and the events emitted.  A revert inside the ledger call
\* reverts the whole transaction.
onAttest(uid, refUID, project, fid, textLength, links) ==
    LET v == validateShip(refUID, project, fid, textLength, links) IN
    IF v # "ok" THEN Revert(v, EmptyUser)
    ELSE LET r == recordShip(Gate, fid, uid) IN
         IF r.err # "ok" THEN Revert(r.err, EmptyUser)
         ELSE [err |-> "ok", user |-> r.user,
               events |-> r.events \o <<ShipCreated(fid, uid, refUID, now)>>]

\* Variant of onRevoke that lets the registry revoke the attestation.
onRevoke_accept(uid) ==
    [err |-> "ok", user |-> EmptyUser, events |-> <<>>]

\* ShipResolver.onRevoke, for the attestation uid.
onRevoke(uid) ==
    Revert("RevocationNotSupported", EmptyUser)

\* ------------------------------------------------------------ queries

\* Variant: the stored streak is returned without the lapse check.
getCurrentStreak_stored(fid, t) ==
    LET user == IF fid \in Fids THEN userData[fid] ELSE EmptyUser IN
    IF user.lastShipTimestamp = 0 THEN 0 ELSE user.currentStreak

\* StreakTracker.getCurrentStreak at block.timestamp = t ("panic" when the
\* checked subtraction underflows).
getCurrentStreak(fid, t) ==
    LET user == IF fid \in Fids THEN userData[fid] ELSE EmptyUser IN
    IF user.lastShipTimestamp = 0 THEN 0
    ELSE IF t < user.lastShipTimestamp THEN "panic"
    ELSE LET daysSinceLastShip == (t - user.lastShipTimestamp) \div ONE_DAY IN
         IF daysSinceLastShip > 1 THEN 0 ELSE user.currentStreak

\* Variant: shipped within the last 24 hours, as the resolver measures it.
hasShippedToday_elapsed(fid, t) ==
    LET lastShip == IF fid \in Fids THEN userData[fid].lastShipTimestamp ELSE 0 IN
    IF lastShip = 0 THEN FALSE
    ELSE IF t < lastShip THEN "panic"
    ELSE t - lastShip < ONE_DAY

\* StreakTracker.hasShippedToday at block.timestamp = t.
hasShippedToday(fid, t) ==
    LET lastShip == IF fid \in Fids THEN userData[fid].lastShipTimestamp ELSE 0 IN
    IF lastShip = 0 THEN FALSE
    ELSE _isSameDay(lastShip, t)

\* StreakTracker.getShipUIDs
getShipUIDs(fid) ==
    IF fid \in Fids THEN userData[fid].shipUIDs ELSE <<>>

\* Variant: the stored streak is reported without the lapse check.
getStreakData_stored(fid, t) ==
    LET user == IF fid \in Fids THEN userData[fid] ELSE EmptyUser IN
    [currentStreak |-> user.currentStreak, totalShips |-> user.totalShips,
     lastShipTimestamp |-> user.lastShipTimestamp,
     longestStreak |-> user.longestStreak]

\* StreakTracker.getStreakData at block.timestamp = t ("panic" when the
\* checked subtraction underflows).
getStreakData(fid, t) ==
    LET user == IF fid \in Fids THEN userData[fid] ELSE EmptyUser IN
    IF user.lastShipTimestamp > 0 /\ t < user.lastShipTimestamp THEN "panic"
    ELSE LET activeCurrent ==
                 IF user.lastShipTimestamp > 0
                 THEN LET daysSinceLastShip ==
                              (t - user.lastShipTimestamp) \div ONE_DAY IN
                      IF daysSinceLastShip <= 1 THEN user.currentStreak ELSE 0
                 ELSE 0
         IN  [currentStreak |-> activeCurrent, totalShips |-> user.totalShips,
              lastShipTimestamp |-> user.lastShipTimestamp,
              longestStreak |-> user.longestStreak]

\* Variant: an admission exactly 24 hours ago still counts.
resolverHasShippedToday_inclusive(fid, t) ==
    LET lastShip == IF fid \in Fids THEN lastShipTimestamp[fid] ELSE 0 IN
    IF lastShip = 0 THEN FALSE
    ELSE t - lastShip <= MIN_SHIP_INTERVAL

\* ShipResolver.hasShippedToday at block.timestamp = t ("panic" when the
\* checked subtraction underflows).
resolverHasShippedToday(fid, t) ==
    LET lastShip == IF fid \in Fids THEN lastShipTimestamp[fid] ELSE 0 IN
    IF lastShip = 0 THEN FALSE
    ELSE IF t < lastShip THEN "panic"
    ELSE t - lastShip < MIN_SHIP_INTERVAL

\* Variant: the time left until the next epoch day begins.
getTimeUntilNextShip_midnight(fid, t) ==
    LET lastShip == IF fid \in Fids THEN lastShipTimestamp[fid] ELSE 0 IN
    IF lastShip = 0 THEN 0
    ELSE IF t < lastShip THEN "panic"
    ELSE IF t \div ONE_DAY > lastShip \div ONE_DAY THEN 0
    ELSE ONE_DAY - (t % ONE_DAY)

\* ShipResolver.getTimeUntilNextShip at block.timestamp = t.
getTimeUntilNextShip(fid, t) ==
    LET lastShip == IF fid \in Fids THEN lastShipTimestamp[fid] ELSE 0 IN
    IF lastShip = 0 THEN 0
    ELSE IF t < lastShip THEN "panic"
    ELSE LET timeSinceLastShip == t - lastShip IN
         IF timeSinceLastShip >= MIN_SHIP_INTERVAL THEN 0
         ELSE MIN_SHIP_INTERVAL - timeSinceLastShip

\* ------------------------------------------------------------ state machine

\* What the caller of the last operation observed: the error ("ok" if
\* none), the events logged and, for a view call, its argument and result.
Receipt(op, fid, err, events, ret) ==
    [op |-> op, fid |-> fid, err |-> err, events |-> events, ret |-> ret]

\* The attestation UIDs a call is made with: the zero UID, or the next
\* unused one, numbered per identity as the tests do (bytes32(i + 1)).
UIDsFor(fid) ==
    {0, (IF fid \in Fids THEN Len(userData[fid].shipUIDs) ELSE 0) + 1}

Max(a, b) == IF a > b THEN a ELSE b

Init ==
    /\ now \in {t \in TimePoints : t \div ONE_DAY = 1}
    /\ userData = [f \in Fids |-> EmptyUser]
    /\ authorizedResolvers = [a \in Addrs |-> FALSE]
    /\ lastShipTimestamp = [f \in Fids |-> 0]
    /\ last = Receipt("deploy", 0, "ok", <<>>, 0)
    /\ shipDays = [f \in Fids |-> <<>>]
    /\ maxWritten = [f \in Fids |-> 0]
    /\ frames = <<>>

\* Variant: a clock that may also be set back.
Warp_anyDirection(t) ==
    /\ t # now
    /\ now' = t
    /\ last' = Receipt("warp", 0, "ok", <<>>, 0)
    /\ UNCHANGED <<userData, authorizedResolvers, lastShipTimestamp, shipDays, maxWritten,
                   frames>>

\* vm.warp / the chain's clock moving forward.
Warp(t) ==
    /\ t > now
    /\ now' = t
    /\ last' = Receipt("warp", 0, "ok", <<>>, 0)
    /\ UNCHANGED <<userData, authorizedResolvers, lastShipTimestamp, shipDays, maxWritten,
                   frames>>

\* Variant of setResolverAuthorization without the onlyOwner modifier.
SetResolverAuthorization_anyone(caller, resolver, authorized) ==
    /\ authorizedResolvers' = [authorizedResolvers EXCEPT ![resolver] = authorized]
    /\ last' = Receipt("setResolverAuthorization", 0, "ok",
                       <<ResolverAuthorizationChanged(resolver, authorized)>>, 0)
    /\ UNCHANGED <<now, userData, lastShipTimestamp, shipDays, maxWritten, frames>>

\* StreakTracker.setResolverAuthorization (onlyOwner)
SetResolverAuthorization(caller, resolver, authorized) ==
    /\ IF caller = Owner
       THEN /\ authorizedResolvers' = [authorizedResolvers EXCEPT ![resolver] = authorized]
            /\ last' = Receipt("setResolverAuthorization", 0, "ok",
                               <<ResolverAuthorizationChanged(resolver, authorized)>>, 0)
       ELSE /\ UNCHANGED authorizedResolvers
            /\ last' = Receipt("setResolverAuthorization", 0, "Unauthorized", <<>>, 0)
    /\ UNCHANGED <<now, userData, lastShipTimestamp, shipDays, maxWritten, frames>>

\* A transaction calling StreakTracker.recordShip directly.
RecordShip(sender, fid, attestationUID) ==
    LET r == recordShip(sender, fid, attestationUID) IN
    /\ last' = Receipt("recordShip", 0, r.err, r.events, 0)
    /\ IF r.err = "ok"
       THEN /\ userData' = [userData EXCEPT ![fid] = r.user]
            /\ shipDays' = [shipDays EXCEPT ![fid] = Append(@, now \div ONE_DAY)]
            /\ maxWritten' = [maxWritten EXCEPT ![fid] = Max(@, r.user.currentStreak)]
       ELSE UNCHANGED <<userData, shipDays, maxWritten>>
    /\ UNCHANGED <<now, authorizedResolvers, lastShipTimestamp, frames>>

\* Variant of the onAttest transaction in which the gate keeps one throttle
\* time for all identities.
OnAttest_sharedThrottle(uid, refUID, project, fid, textLength, links) ==
    LET r == onAttest(uid, refUID, project, fid, textLength, links) IN
    /\ last' = Receipt("onAttest", 0, r.err, r.events, 0)
    /\ IF r.err = "ok"
       THEN /\ lastShipTimestamp' = [f \in Fids |-> now]
            /\ userData' = [userData EXCEPT ![fid] = r.user]
            /\ shipDays' = [shipDays EXCEPT ![fid] = Append(@, now \div ONE_DAY)]
            /\ maxWritten' = [maxWritten EXCEPT ![fid] = Max(@, r.user.currentStreak)]
       ELSE UNCHANGED <<lastShipTimestamp, userData, shipDays, maxWritten>>
    /\ UNCHANGED <<now, authorizedResolvers, frames>>

\* Variant of the onAttest transaction in which a revert of the ledger call
\* does not undo the gate's own write made before the call.
OnAttest_noRollback(uid, refUID, project, fid, textLength, links) ==
    LET r == onAttest(uid, refUID, project, fid, textLength, links) IN
    /\ last' = Receipt("onAttest", 0, r.err, r.events, 0)
    /\ IF r.err = "ok"
       THEN /\ lastShipTimestamp' = [lastShipTimestamp EXCEPT ![fid] = now]
            /\ userData' = [userData EXCEPT ![fid] = r.user]
            /\ shipDays' = [shipDays EXCEPT ![fid] = Append(@, now \div ONE_DAY)]
            /\ maxWritten' = [maxWritten EXCEPT ![fid] = Max(@, r.user.currentStreak)]
       ELSE IF validateShip(refUID, project, fid, textLength, links) = "ok"
       THEN /\ lastShipTimestamp' = [lastShipTimestamp EXCEPT ![fid] = now]
            /\ UNCHANGED <<userData, shipDays, maxWritten>>
       ELSE UNCHANGED <<lastShipTimestamp, userData, shipDays, maxWritten>>
    /\ UNCHANGED <<now, authorizedResolvers, frames>>


\* A transaction in which EAS calls ShipResolver.onAttest for a new ship
\* attestation uid that references refUID, for which the registry answers
\* project, and whose data decodes to (text, links, _, fid).
OnAttest(uid, refUID, project, fid, textLength, links) ==
    LET r == onAttest(uid, refUID, project, fid, textLength, links) IN
    /\ last' = Receipt("onAttest", 0, r.err, r.events, 0)
    /\ IF r.err = "ok"
       THEN /\ lastShipTimestamp' = [lastShipTimestamp EXCEPT ![fid] = now]
            /\ userData' = [userData EXCEPT ![fid] = r.user]
            /\ shipDays' = [shipDays EXCEPT ![fid] = Append(@, now \div ONE_DAY)]
            /\ maxWritten' = [maxWritten EXCEPT ![fid] = Max(@, r.user.currentStreak)]
       ELSE UNCHANGED <<lastShipTimestamp, userData, shipDays, maxWritten>>
    /\ UNCHANGED <<now, authorizedResolvers, frames>>

\* A call of the view function StreakTracker.getCurrentStreak.
GetCurrentStreak(fid) ==
    /\ last' = Receipt("getCurrentStreak", fid, "ok", <<>>, getCurrentStreak(fid, now))
    /\ UNCHANGED <<now, userData, authorizedResolvers, lastShipTimestamp, shipDays,
                   maxWritten, frames>>

Next ==
    \/ \E t \in TimePoints : Warp(t)
    \/ \E caller \in Addrs, authorized \in BOOLEAN :
          SetResolverAuthorization(caller, Writer, authorized)
    \/ \E sender \in Addrs, fid \in Fids \cup {0} : \E uid \in UIDsFor(fid) :
          RecordShip(sender, fid, uid)
    \/ \E fid \in Fids : GetCurrentStreak(fid)

Spec == Init /\ [][Next]_vars

\* The inputs of a ship attestation.
TextLengths == {0, MIN_TEXT_LENGTH - 1, MIN_TEXT_LENGTH, MAX_TEXT_LENGTH, MAX_TEXT_LENGTH + 1}
LinkCounts == {0, MAX_LINKS, MAX_LINKS + 1}

\* A reference and the registry's answer for it: no reference at all, or
\* PROJECT_REF_UID with each of the answers.
References ==
    {[refUID |-> 0, project |-> [time |-> 0, revocationTime |-> 0, schema |-> 0]]}
    \cup {[refUID |-> PROJECT_REF_UID, project |-> a] : a \in RegistryAnswers}

\* The ledger behind the gate: ships of one identity arrive through
\* onAttest, and the owner may authorize the gate and a second writer.
GateFids == {FID_ALICE}

GateNext ==
    \/ \E t \in GateTimePoints : Warp(t)
    \/ \E caller \in Addrs, resolver \in {Gate, Writer}, authorized \in BOOLEAN :
          SetResolverAuthorization(caller, resolver, authorized)
    \/ \E fid \in GateFids : \E uid \in UIDsFor(fid) \ {0} :
          RecordShip(Writer, fid, uid)
    \/ \E fid \in GateFids \cup {0}, ref \in References, textLength \in TextLengths,
          links \in LinkCounts : \E uid \in UIDsFor(fid) \ {0} :
          OnAttest(uid, ref.refUID, ref.project, fid, textLength, links)
    \/ \E fid \in GateFids : GetCurrentStreak(fid)

GateSpec == Init /\ [][GateNext]_vars


\* ------------------------------------------------------------ view calls

MaxQueryDay == 3
QueryTimePoints == DayPoints(MaxQueryDay)
QueryFids == {FID_ALICE}

\* The ship attestations of the view-call runs: a valid one, and one that
\* the gate refuses for its text.
QueryTextLengths == {MIN_TEXT_LENGTH, MAX_TEXT_LENGTH + 1}
ValidReference ==
    [refUID |-> PROJECT_REF_UID,
     project |-> [time |-> ONE_DAY, revocationTime |-> 0, schema |-> PROJECT_SCHEMA_UID]]

\* A call of the view function ShipResolver.hasShippedToday.
ResolverHasShippedToday(fid) ==
    /\ last' = Receipt("resolver.hasShippedToday", fid, "ok", <<>>,
                       resolverHasShippedToday(fid, now))
    /\ UNCHANGED <<now, userData, authorizedResolvers, lastShipTimestamp, shipDays,
                   maxWritten, frames>>

\* A call of the view function ShipResolver.getTimeUntilNextShip.
GetTimeUntilNextShip(fid) ==
    /\ last' = Receipt("getTimeUntilNextShip", fid, "ok", <<>>,
                       getTimeUntilNextShip(fid, now))
    /\ UNCHANGED <<now, userData, authorizedResolvers, lastShipTimestamp, shipDays,
                   maxWritten, frames>>

\* A call of the view function StreakTracker.hasShippedToday.
HasShippedToday(fid) ==
    /\ last' = Receipt("hasShippedToday", fid, "ok", <<>>, hasShippedToday(fid, now))
    /\ UNCHANGED <<now, userData, authorizedResolvers, lastShipTimestamp, shipDays,
                   maxWritten, frames>>

\* A call of the view function StreakTracker.getShipUIDs.
GetShipUIDs(fid) ==
    /\ last' = Receipt("getShipUIDs", fid, "ok", <<>>, getShipUIDs(fid))
    /\ UNCHANGED <<now, userData, authorizedResolvers, lastShipTimestamp, shipDays,
                   maxWritten, frames>>

\* A transaction in which EAS calls ShipResolver.onRevoke for attestation
\* uid; the resolver's code writes nothing.
OnRevoke(uid) ==
    LET r == onRevoke(uid) IN
    /\ last' = Receipt("onRevoke", 0, r.err, r.events, 0)
    /\ UNCHANGED <<now, userData, authorizedResolvers, lastShipTimestamp, shipDays,
                   maxWritten, frames>>

\* The attestations a revocation may name: recorded ships, the zero UID
\* and a UID that is no recorded ship.
RevokedUIDs == 0..(MaxQueryDay + 1)

\* A call of the view function StreakTracker.getStreakData.
GetStreakData(fid) ==
    /\ last' = Receipt("getStreakData", fid, "ok", <<>>, getStreakData(fid, now))
    /\ UNCHANGED <<now, userData, authorizedResolvers, lastShipTimestamp, shipDays,
                   maxWritten, frames>>

\* The gate and the ledger with their view functions called between the
\* transactions.
QueryNext ==
    \/ \E t \in QueryTimePoints : Warp(t)
    \/ \E resolver \in {Gate, Writer}, authorized \in BOOLEAN :
          SetResolverAuthorization(Owner, resolver, authorized)
    \/ \E fid \in QueryFids : \E uid \in UIDsFor(fid) \ {0} :
          RecordShip(Writer, fid, uid)
    \/ \E fid \in QueryFids, textLength \in QueryTextLengths :
          \E uid \in UIDsFor(fid) \ {0} :
          OnAttest(uid, ValidReference.refUID, ValidReference.project, fid, textLength, 0)
    \/ \E fid \in QueryFids : ResolverHasShippedToday(fid)
    \/ \E fid \in QueryFids : GetTimeUntilNextShip(fid)
    \/ \E fid \in QueryFids : HasShippedToday(fid)
    \/ \E fid \in QueryFids : GetShipUIDs(fid)
    \/ \E fid \in QueryFids : GetStreakData(fid)
    \/ \E uid \in RevokedUIDs : OnRevoke(uid)

QuerySpec == Init /\ [][QueryNext]_vars

\* ------------------------------------------------------------ two identities

MaxPairDay == 2
PairTimePoints == DayPoints(MaxPairDay)

\* Two identities shipping through the gate and through a second writer.
PairNext ==
    \/ \E t \in PairTimePoints : Warp(t)
    \/ \E resolver \in {Gate, Writer}, authorized \in BOOLEAN :
          SetResolverAuthorization(Owner, resolver, authorized)
    \/ \E fid \in Fids : \E uid \in UIDsFor(fid) \ {0} :
          RecordShip(Writer, fid, uid)
    \/ \E fid \in Fids, textLength \in QueryTextLengths :
          \E uid \in UIDsFor(fid) \ {0} :
          OnAttest(uid, ValidReference.refUID, ValidReference.project, fid, textLength, 0)

PairSpec == Init /\ [][PairNext]_vars

\* ------------------------------------------------------------ backward clock

MaxSkewDay == 3
MaxSkewShips == 3
SkewTimePoints == DayPoints(MaxSkewDay)
SkewFids == {FID_ALICE}

\* The ledger is called with a block.timestamp earlier than the one of an
\* earlier call (a caller or chain that does not keep the clock monotone).
Rewind(t) ==
    /\ t < now
    /\ now' = t
    /\ last' = Receipt("rewind", 0, "ok", <<>>, 0)
    /\ UNCHANGED <<userData, authorizedResolvers, lastShipTimestamp, shipDays, maxWritten,
                   frames>>

\* The ledger and one writer under a clock that moves in both directions;
\* the number of ships per identity is capped to keep the run finite.
SkewNext ==
    \/ \E t \in SkewTimePoints : Warp(t)
    \/ \E t \in SkewTimePoints : Rewind(t)
    \/ \E authorized \in BOOLEAN : SetResolverAuthorization(Owner, Writer, authorized)
    \/ \E fid \in SkewFids : \E uid \in UIDsFor(fid) \ {0} :
          /\ userData[fid].totalShips < MaxSkewShips
          /\ RecordShip(Writer, fid, uid)

SkewSpec == Init /\ [][SkewNext]_vars

\* ------------------------------------------------------------ onAttest, step by step

MaxReentryDay == 2
MaxDepth == 2
ReentryTimePoints == DayPoints(MaxReentryDay)
ReentryFids == {FID_ALICE}

\* The references of the step-by-step runs: none, and a valid one.
ReentryReferences ==
    {[refUID |-> 0, project |-> [time |-> 0, revocationTime |-> 0, schema |-> 0]],
     ValidReference}

\* The innermost call in progress.
Top == frames[Len(frames)]

\* What a revert of a call restores: the storage of both contracts (and the
\* history kept with it) as it was when the call began.
Snapshot ==
    [lastShipTimestamp |-> lastShipTimestamp, userData |-> userData,
     shipDays |-> shipDays, maxWritten |-> maxWritten]

\* The call stack after the innermost call has returned or reverted: the
\* caller, if any, is the registry read of the next outer call, which has
\* now been re-entered, and which keeps the events of a call that returned.
Return(events) ==
    IF Len(frames) = 1 THEN <<>>
    ELSE [SubSeq(frames, 1, Len(frames) - 1)
            EXCEPT ![Len(frames) - 1].reentered = TRUE,
                   ![Len(frames) - 1].events = @ \o events]

\* The innermost call reverts with error: its writes and those of the calls
\* it contained are undone; the outermost call's revert ends the
\* transaction, with the error as its receipt.
RevertCall(error) ==
    /\ lastShipTimestamp' = Top.saved.lastShipTimestamp
    /\ userData' = Top.saved.userData
    /\ shipDays' = Top.saved.shipDays
    /\ maxWritten' = Top.saved.maxWritten
    /\ frames' = Return(<<>>)
    /\ last' = IF Len(frames) = 1 THEN Receipt("onAttest", 0, error, <<>>, 0) ELSE last
    /\ UNCHANGED <<now, authorizedResolvers>>

\* Variant of AttestBegin in which the throttle time is written before the
\* registry is read.
AttestBegin_writeFirst(uid, ref, fid, textLength, links) ==
    /\ Len(frames) < MaxDepth
    /\ frames # <<>> => Top.pc = "registry"
    /\ IF ref.refUID = 0
       THEN /\ last' = IF frames = <<>>
                       THEN Receipt("onAttest", 0, "MissingProjectReference", <<>>, 0)
                       ELSE last
            /\ UNCHANGED <<frames, lastShipTimestamp>>
       ELSE /\ frames' = Append(frames,
                                [uid |-> uid, ref |-> ref, fid |-> fid,
                                 textLength |-> textLength, links |-> links,
                                 pc |-> "registry", reentered |-> FALSE,
                                 events |-> <<>>, saved |-> Snapshot])
            /\ lastShipTimestamp' = [lastShipTimestamp EXCEPT ![fid] = now]
            /\ UNCHANGED last
    /\ UNCHANGED <<now, userData, authorizedResolvers, shipDays, maxWritten>>

\* EAS calls onAttest (lines 499-508): either as a transaction of its own,
\* or from inside the registry read of a call in progress.  A zero
\* reference reverts at once; otherwise the call reaches its read of the
\* registry, having written nothing.
AttestBegin(uid, ref, fid, textLength, links) ==
    /\ Len(frames) < MaxDepth
    /\ frames # <<>> => Top.pc = "registry"
    /\ IF ref.refUID = 0
       THEN /\ last' = IF frames = <<>>
                       THEN Receipt("onAttest", 0, "MissingProjectReference", <<>>, 0)
                       ELSE last
            /\ UNCHANGED frames
       ELSE /\ frames' = Append(frames,
                                [uid |-> uid, ref |-> ref, fid |-> fid,
                                 textLength |-> textLength, links |-> links,
                                 pc |-> "registry", reentered |-> FALSE,
                                 events |-> <<>>, saved |-> Snapshot])
            /\ UNCHANGED last
    /\ UNCHANGED <<now, userData, authorizedResolvers, lastShipTimestamp, shipDays,
                   maxWritten>>

\* The registry read returns and the checks of lines 508-535 run on the
\* storage as it is now.
AttestValidate ==
    /\ frames # <<>>
    /\ Top.pc = "registry"
    /\ LET v == validateShip(Top.ref.refUID, Top.ref.project, Top.fid,
                             Top.textLength, Top.links) IN
       IF v # "ok"
       THEN RevertCall(v)
       ELSE /\ frames' = [frames EXCEPT ![Len(frames)].pc = "validated"]
            /\ UNCHANGED <<now, userData, authorizedResolvers, lastShipTimestamp, last,
                           shipDays, maxWritten>>

\* lastShipTimestamp[fid] = block.timestamp (line 538).
AttestWrite ==
    /\ frames # <<>>
    /\ Top.pc = "validated"
    /\ lastShipTimestamp' = [lastShipTimestamp EXCEPT ![Top.fid] = now]
    /\ frames' = [frames EXCEPT ![Len(frames)].pc = "written"]
    /\ UNCHANGED <<now, userData, authorizedResolvers, last, shipDays, maxWritten>>

\* streakTracker.recordShip(fid, attestation.uid), emit ShipCreated and
\* return true (lines 542-552).
AttestForward ==
    /\ frames # <<>>
    /\ Top.pc = "written"
    /\ LET r == recordShip(Gate, Top.fid, Top.uid) IN
       IF r.err # "ok"
       THEN RevertCall(r.err)
       ELSE LET events == Top.events \o r.events
                            \o <<ShipCreated(Top.fid, Top.uid, Top.ref.refUID, now)>> IN
            /\ userData' = [userData EXCEPT ![Top.fid] = r.user]
            /\ shipDays' = [shipDays EXCEPT ![Top.fid] = Append(@, now \div ONE_DAY)]
            /\ maxWritten' = [maxWritten EXCEPT ![Top.fid] = Max(@, r.user.currentStreak)]
            /\ frames' = Return(events)
            /\ last' = IF Len(frames) = 1
                       THEN Receipt("onAttest", 0, "ok", events, 0)
                       ELSE last
            /\ UNCHANGED <<now, authorizedResolvers, lastShipTimestamp>>

\* The gate with a registry that may call back into it while it is being
\* read; between transactions the clock moves and the owner sets the
\* gate's authorization.
ReentryNext ==
    \/ \E t \in ReentryTimePoints : frames = <<>> /\ Warp(t)
    \/ \E authorized \in BOOLEAN :
          frames = <<>> /\ SetResolverAuthorization(Owner, Gate, authorized)
    \/ \E fid \in ReentryFids, ref \in ReentryReferences,
          textLength \in QueryTextLengths : \E uid \in UIDsFor(fid) \ {0} :
          AttestBegin(uid, ref, fid, textLength, 0)
    \/ AttestValidate
    \/ AttestWrite
    \/ AttestForward

ReentrySpec == Init /\ [][ReentryNext]_vars

\* ------------------------------------------------------------ claims

\* The epoch day of a timestamp, floor(t / 86400).
Day(t) == t \div ONE_DAY

\* A direct recordShip step for fid by a currently authorized writer with a
\* non-zero UID.
ValidRecordShip(sender, fid, uid) ==
    /\ last'.op = "recordShip"
    /\ authorizedResolvers[sender]
    /\ uid # 0
    /\ RecordShip(sender, fid, uid)

\* C1: a recordShip by an authorized writer for an identity that already has
\* an admitted event in the current epoch day fails with AlreadyShippedToday,
\* leaves every stored field unchanged and emits no event.
C1_SameDayRejection ==
    [][\A sender \in Addrs, fid \in Fids : \A uid \in UIDsFor(fid) :
          (/\ ValidRecordShip(sender, fid, uid)
           /\ userData[fid].lastShipTimestamp > 0
           /\ Day(userData[fid].lastShipTimestamp) = Day(now))
          => (/\ last'.err = "AlreadyShippedToday"
              /\ last'.events = <<>>
              /\ userData' = userData)]_vars

\* C1 witness: a rejected second ship later in the same day as the first.
C1_Witness ==
    /\ last.op = "recordShip"
    /\ last.err = "AlreadyShippedToday"
    /\ \E fid \in Fids :
          /\ userData[fid].lastShipTimestamp > 0
          /\ userData[fid].lastShipTimestamp < now
          /\ Day(userData[fid].lastShipTimestamp) = Day(now)

\* C2: for every identity the admitted ships fall on pairwise different
\* epoch days (one day recorded per entry of shipUIDs).
C2_OnePerDay ==
    \A fid \in Fids :
        /\ Len(shipDays[fid]) = Len(userData[fid].shipUIDs)
        /\ \A i, j \in DOMAIN shipDays[fid] :
              i # j => shipDays[fid][i] # shipDays[fid][j]

\* C2 witness: an identity with two admitted ships whose third attempt, on
\* the day of the second, was rejected.
C2_Witness ==
    /\ last.op = "recordShip"
    /\ last.err = "AlreadyShippedToday"
    /\ \E fid \in Fids :
          /\ Len(userData[fid].shipUIDs) >= 2
          /\ Day(userData[fid].lastShipTimestamp) = Day(now)

\* The admitted ships of fid are on consecutive days starting from its first.
ConsecutiveRun(fid) ==
    \A i \in DOMAIN shipDays[fid] : shipDays[fid][i] = shipDays[fid][1] + (i - 1)

\* C3: after one admitted ship on each of k consecutive days (and none
\* before) the stored currentStreak is k, totalShips is k, and
\* getCurrentStreak at the time of the k-th ship returns k.
C3_ConsecutiveGrowth ==
    \A fid \in Fids :
        LET k == Len(shipDays[fid]) IN
        (k > 0 /\ ConsecutiveRun(fid))
        => (/\ userData[fid].currentStreak = k
            /\ userData[fid].totalShips = k
            /\ getCurrentStreak(fid, userData[fid].lastShipTimestamp) = k)

\* C3 witness: three ships on three consecutive days, the last just made.
C3_Witness ==
    /\ last.op = "recordShip"
    /\ last.err = "ok"
    /\ \E fid \in Fids :
          /\ Len(shipDays[fid]) = 3
          /\ ConsecutiveRun(fid)
          /\ userData[fid].lastShipTimestamp = now

\* C4: a successful recordShip two or more days after the identity's last
\* event emits StreakBroken(fid, stored currentStreak, stored
\* lastShipTimestamp) with the pre-call values, sets currentStreak to 1, adds
\* 1 to totalShips and leaves longestStreak unchanged.
C4_BreakAndReset ==
    [][\A sender \in Addrs, fid \in Fids : \A uid \in UIDsFor(fid) :
          (/\ ValidRecordShip(sender, fid, uid)
           /\ last'.err = "ok"
           /\ userData[fid].lastShipTimestamp > 0
           /\ Day(now) >= Day(userData[fid].lastShipTimestamp) + 2)
          => (/\ Len(last'.events) = 2
              /\ last'.events[1] = StreakBroken(fid, userData[fid].currentStreak,
                                                userData[fid].lastShipTimestamp)
              /\ userData'[fid].currentStreak = 1
              /\ userData'[fid].totalShips = userData[fid].totalShips + 1
              /\ userData'[fid].longestStreak = userData[fid].longestStreak)]_vars

\* C4 witness: a streak of 2 or more was just broken by a ship after a gap.
C4_Witness ==
    /\ last.op = "recordShip"
    /\ last.err = "ok"
    /\ Len(last.events) = 2
    /\ last.events[1].name = "StreakBroken"
    /\ last.events[1].previousStreak >= 2
    /\ userData[last.events[1].fid].currentStreak = 1
    /\ userData[last.events[1].fid].longestStreak >= 2

\* C5: totalShips equals the length of shipUIDs and the number of recordShip
\* calls that succeeded for the identity (shipDays gets one entry per
\* successful call and none otherwise).
C5_TotalIsLength ==
    \A fid \in Fids :
        /\ userData[fid].totalShips = Len(userData[fid].shipUIDs)
        /\ userData[fid].totalShips = Len(shipDays[fid])

\* C5 witness: after three successes a further call for the identity failed.
C5_Witness ==
    /\ last.op = "recordShip"
    /\ last.err # "ok"
    /\ \E fid \in Fids : userData[fid].totalShips = 3

\* C6: the stored longestStreak is at least the stored currentStreak.
C6_LongestAtLeastCurrent ==
    \A fid \in Fids : userData[fid].longestStreak >= userData[fid].currentStreak

\* C6 witness: a new streak running below the identity's longest.
C6_Witness ==
    \E fid \in Fids :
        /\ userData[fid].currentStreak >= 1
        /\ userData[fid].longestStreak > userData[fid].currentStreak

\* C7: longestStreak never decreases in any step, and always equals the
\* largest value ever written to currentStreak (0 if none).
C7_LongestIsMaxWritten ==
    /\ [](\A fid \in Fids : userData[fid].longestStreak = maxWritten[fid])
    /\ [][\A fid \in Fids :
             userData'[fid].longestStreak >= userData[fid].longestStreak]_vars

\* C7 witness: a longest streak of 2 kept through a reset and a later query.
C7_Witness ==
    /\ last.op = "getCurrentStreak"
    /\ maxWritten[last.fid] = 2
    /\ userData[last.fid].currentStreak = 1
    /\ Len(userData[last.fid].shipUIDs) = 3

\* A step that admits a ship (directly or through the gate).
Admitted == last'.op \in {"recordShip", "onAttest"} /\ last'.err = "ok"

\* C8: the stored currentStreak changes only in a successful recordShip
\* (direct, or the one made by a successful onAttest), and a write sets it
\* to 1 or to its previous value plus 1; failed calls, authorization
\* changes, queries and the passage of time leave it alone.
C8_StreakOnlyByRecordShip ==
    [][\A fid \in Fids :
          /\ (userData'[fid].currentStreak # userData[fid].currentStreak) => Admitted
          /\ (~Admitted) => (userData'[fid] = userData[fid])
          /\ (userData'[fid] # userData[fid])
             => (userData'[fid].currentStreak \in {1, userData[fid].currentStreak + 1})]_vars

\* C8 witness: a submission rejected by the gate while the identity holds a
\* streak of 2.
C8_Witness ==
    /\ last.op = "onAttest"
    /\ last.err = "TooManyLinks"
    /\ userData[FID_ALICE].currentStreak = 2

\* C9 (as claimed): getCurrentStreak returns 0 for an identity that never
\* shipped, 0 when day(now) - day(lastShipTimestamp) > 1, and the stored
\* currentStreak otherwise.
C9_VisibleStreakByDay ==
    \A fid \in Fids :
        LET user == userData[fid] IN
        (now >= user.lastShipTimestamp)
        => getCurrentStreak(fid, now) =
              (IF user.lastShipTimestamp = 0 THEN 0
               ELSE IF Day(now) - Day(user.lastShipTimestamp) > 1 THEN 0
               ELSE user.currentStreak)

\* C10: the passage of time and queries never modify stored state; three or
\* more days after the last event getCurrentStreak returns 0 while the
\* stored currentStreak still holds a written (non-zero) value; and the
\* previousStreak of a StreakBroken event is the currentStreak stored before
\* the call that emits it.
C10_LapseDoesNotWrite ==
    /\ [](\A fid \in Fids :
            (/\ userData[fid].lastShipTimestamp > 0
             /\ Day(now) - Day(userData[fid].lastShipTimestamp) >= 3)
            => (/\ getCurrentStreak(fid, now) = 0
                /\ userData[fid].currentStreak >= 1))
    /\ [][/\ (last'.op \in {"warp", "getCurrentStreak"})
             => UNCHANGED <<userData, authorizedResolvers, lastShipTimestamp>>
          /\ \A i \in DOMAIN last'.events :
                (last'.events[i].name = "StreakBroken")
                => (last'.events[i].previousStreak
                      = userData[last'.events[i].fid].currentStreak)]_vars

\* C10 witness: a query three days after the last event returned 0 while
\* the stored streak is still 1.
C10_Witness ==
    /\ last.op = "getCurrentStreak"
    /\ last.ret = 0
    /\ userData[last.fid].currentStreak = 1
    /\ Day(now) - Day(userData[last.fid].lastShipTimestamp) >= 3

\* A call of recordShip or onAttest that reverted leaves every stored field
\* of both contracts as it was (the transaction is undone as a whole).
RevertedCallKeepsState ==
    (last'.op \in {"recordShip", "onAttest"} /\ last'.err # "ok")
    => UNCHANGED <<userData, authorizedResolvers, lastShipTimestamp>>

\* C11: recordShip called by an address that is not in authorizedResolvers
\* fails with UnauthorizedResolver for every input, emits nothing and
\* changes no state; with fid = 0 or a zero attestation UID the
\* authorization error still wins over InvalidFID / InvalidAttestationUID.
C11_UnauthorizedRejected ==
    /\ [](\A sender \in Addrs : \A fid \in Fids \cup {0} : \A uid \in UIDsFor(fid) :
            ~authorizedResolvers[sender]
            => (/\ recordShip(sender, fid, uid).err = "UnauthorizedResolver"
                /\ recordShip(sender, fid, uid).events = <<>>))
    /\ [][RevertedCallKeepsState]_vars

\* C11 witness: recordShip has just been refused with UnauthorizedResolver
\* although the writer is authorized (the caller was another address) and
\* an identity already has recorded ships, which are still in place.
C11_Witness ==
    /\ last.op = "recordShip"
    /\ last.err = "UnauthorizedResolver"
    /\ authorizedResolvers[Writer]
    /\ userData[FID_ALICE].totalShips >= 1
    /\ userData[FID_ALICE].lastShipTimestamp > 0

\* C12: recordShip called by an authorized writer with fid = 0 fails with
\* InvalidFID (also when the attestation UID is zero as well); with
\* fid # 0 and a zero attestation UID it fails with InvalidAttestationUID;
\* in both cases nothing is emitted and no stored field changes.
C12_InputValidation ==
    /\ [](\A sender \in Addrs : \A fid \in Fids \cup {0} : \A uid \in UIDsFor(fid) :
            authorizedResolvers[sender]
            => (/\ (fid = 0)
                     => (/\ recordShip(sender, fid, uid).err = "InvalidFID"
                         /\ recordShip(sender, fid, 0).err = "InvalidFID")
                /\ (fid # 0 /\ uid = 0)
                     => recordShip(sender, fid, uid).err = "InvalidAttestationUID"
                /\ (fid = 0 \/ uid = 0)
                     => recordShip(sender, fid, uid).events = <<>>))
    /\ [][RevertedCallKeepsState]_vars

\* C12 witness: an authorized writer's recordShip has just been refused
\* with InvalidFID while both identities already have recorded ships.
C12_Witness ==
    /\ last.op = "recordShip"
    /\ last.err = "InvalidFID"
    /\ authorizedResolvers[Writer]
    /\ \A fid \in Fids : userData[fid].totalShips >= 1

\* C13: the authorization table changes only in a successful
\* setResolverAuthorization, which only the owner can make: a call by any
\* other address fails and leaves the table as it was; a successful call
\* sets exactly the named writer's membership to the given value and emits
\* ResolverAuthorizationChanged(writer, value); no call of it touches the
\* recorded streak data; and while a writer's membership is false every
\* recordShip by it fails with UnauthorizedResolver.
C13_AuthorizationTable ==
    /\ [](\A writer \in {Gate, Writer} : \A fid \in GateFids : \A uid \in UIDsFor(fid) :
            ~authorizedResolvers[writer]
            => recordShip(writer, fid, uid).err = "UnauthorizedResolver")
    /\ [][/\ (authorizedResolvers' # authorizedResolvers)
              => (last'.op = "setResolverAuthorization" /\ last'.err = "ok")
          /\ (last'.op = "setResolverAuthorization")
              => (/\ UNCHANGED <<userData, lastShipTimestamp>>
                  /\ IF last'.err = "ok"
                     THEN /\ Len(last'.events) = 1
                          /\ last'.events[1].name = "ResolverAuthorizationChanged"
                          /\ authorizedResolvers' =
                                [authorizedResolvers
                                   EXCEPT ![last'.events[1].resolver] =
                                             last'.events[1].authorized]
                     ELSE /\ last'.events = <<>>
                          /\ UNCHANGED authorizedResolvers
                  /\ \A caller \in Addrs \ {Owner} : \A resolver \in {Gate, Writer} :
                       \A authorized \in BOOLEAN :
                         SetResolverAuthorization(caller, resolver, authorized)
                         => last'.err # "ok")]_vars

\* C13 witness: the second writer recorded a ship while authorized (the
\* gate never admitted one), was then removed from the table by the owner,
\* and its next recordShip has just failed with UnauthorizedResolver.
C13_Witness ==
    /\ last.op = "recordShip"
    /\ last.err = "UnauthorizedResolver"
    /\ ~authorizedResolvers[Writer]
    /\ userData[FID_ALICE].totalShips >= 1
    /\ lastShipTimestamp[FID_ALICE] = 0

\* The six checks of the gate, stated on the call's inputs and the state
\* before the call: reference present, reference valid, identity non-zero,
\* text length within bounds, link count within bound, throttle elapsed.
ReferencePresent(ref) == ref.refUID # 0
ReferenceValid(ref) ==
    /\ ref.project.time > 0
    /\ ref.project.revocationTime = 0
    /\ ref.project.schema = PROJECT_SCHEMA_UID
TextWithinBounds(textLength) ==
    textLength >= MIN_TEXT_LENGTH /\ textLength <= MAX_TEXT_LENGTH
LinksWithinBound(links) == links <= MAX_LINKS
Throttled(fid) ==
    /\ fid \in Fids
    /\ lastShipTimestamp[fid] > 0
    /\ now - lastShipTimestamp[fid] < MIN_SHIP_INTERVAL
AllChecksPass(ref, fid, textLength, links) ==
    /\ ReferencePresent(ref)
    /\ ReferenceValid(ref)
    /\ fid # 0
    /\ TextWithinBounds(textLength)
    /\ LinksWithinBound(links)
    /\ ~Throttled(fid)

\* The number of events of a receipt with the given name.
CountEvents(events, name) ==
    Cardinality({i \in DOMAIN events : events[i].name = name})

\* C14: onAttest succeeds only if all six checks pass, and each success is
\* exactly one recordShip(fid, attestation.uid) in the ledger: one
\* ShipRecorded event for (fid, uid), totalShips up by one and uid appended
\* to shipUIDs; a call that fails any check makes no ledger call, so it
\* carries no ledger event and the ledger is unchanged.
C14_ForwardExactlyOnce ==
    /\ [](\A fid \in GateFids \cup {0}, ref \in References,
             textLength \in TextLengths, links \in LinkCounts :
           \A uid \in UIDsFor(fid) \ {0} :
             LET r == onAttest(uid, ref.refUID, ref.project, fid, textLength, links) IN
             /\ (r.err = "ok")
                  => (/\ AllChecksPass(ref, fid, textLength, links)
                      /\ CountEvents(r.events, "ShipRecorded") = 1
                      /\ \E i \in DOMAIN r.events :
                            /\ r.events[i].name = "ShipRecorded"
                            /\ r.events[i].fid = fid
                            /\ r.events[i].attestationUID = uid
                      /\ r.user.totalShips = userData[fid].totalShips + 1
                      /\ r.user.shipUIDs = Append(userData[fid].shipUIDs, uid))
             /\ (~AllChecksPass(ref, fid, textLength, links))
                  => (r.err # "ok" /\ r.events = <<>>))
    /\ [][(last'.op = "onAttest")
            => IF last'.err = "ok"
               THEN \E fid \in GateFids :
                      /\ userData'[fid].totalShips = userData[fid].totalShips + 1
                      /\ Len(userData'[fid].shipUIDs) = Len(userData[fid].shipUIDs) + 1
                      /\ CountEvents(last'.events, "ShipRecorded") = 1
               ELSE /\ UNCHANGED userData
                    /\ CountEvents(last'.events, "ShipRecorded") = 0]_vars

\* C14 witness: the gate has just admitted the identity's second ship, and
\* the ledger holds exactly the two forwarded attestations.
C14_Witness ==
    /\ last.op = "onAttest"
    /\ last.err = "ok"
    /\ lastShipTimestamp[FID_ALICE] = now
    /\ userData[FID_ALICE].totalShips = 2
    /\ userData[FID_ALICE].shipUIDs = <<1, 2>>
    /\ ~authorizedResolvers[Writer]

\* The ledger would refuse a recordShip of the gate for fid now: the gate
\* is not an authorized writer, or a ship of fid is already recorded on
\* the current epoch day (by another authorized writer).
LedgerRecordedToday(fid) ==
    /\ userData[fid].lastShipTimestamp > 0
    /\ Day(userData[fid].lastShipTimestamp) = Day(now)
LedgerRefuses(fid) == ~authorizedResolvers[Gate] \/ LedgerRecordedToday(fid)

\* C15: when onAttest passes all of the gate's checks but the ledger's
\* recordShip fails, the whole call fails with the ledger's error
\* (UnauthorizedResolver if the gate is not authorized, else
\* AlreadyShippedToday for a ship already recorded that epoch day), the
\* gate's lastShipTimestamp keeps its value, the ledger is unchanged and
\* no ShipCreated, ShipRecorded or StreakBroken event is emitted.
C15_AtomicAbort ==
    /\ [](\A fid \in GateFids, ref \in References,
             textLength \in TextLengths, links \in LinkCounts :
           \A uid \in UIDsFor(fid) \ {0} :
             LET r == onAttest(uid, ref.refUID, ref.project, fid, textLength, links) IN
             (AllChecksPass(ref, fid, textLength, links) /\ LedgerRefuses(fid))
             => (/\ r.err = (IF ~authorizedResolvers[Gate]
                             THEN "UnauthorizedResolver"
                             ELSE "AlreadyShippedToday")
                 /\ r.events = <<>>))
    /\ [][(last'.op = "onAttest" /\ last'.err # "ok")
            => (/\ last'.events = <<>>
                /\ UNCHANGED <<lastShipTimestamp, userData, authorizedResolvers>>)]_vars

\* C15 witness: the gate is authorized and has never admitted a ship of the
\* identity, the second writer recorded one earlier on the current epoch
\* day, and the gate's onAttest has just failed with the ledger's
\* AlreadyShippedToday, its throttle slot still zero.
C15_Witness ==
    /\ last.op = "onAttest"
    /\ last.err = "AlreadyShippedToday"
    /\ authorizedResolvers[Gate]
    /\ lastShipTimestamp[FID_ALICE] = 0
    /\ userData[FID_ALICE].totalShips = 1
    /\ LedgerRecordedToday(FID_ALICE)

\* The gate's failure conditions in the order the claim fixes, each with
\* its error, and the error of the first one that holds ("ok" if none).
GateFailures(ref, fid, textLength, links) ==
    << <<~ReferencePresent(ref), "MissingProjectReference">>,
       <<~ReferenceValid(ref), "InvalidProjectReference">>,
       <<fid = 0, "InvalidFID">>,
       <<textLength = 0, "EmptyShipText">>,
       <<textLength < MIN_TEXT_LENGTH, "ShipTextTooShort">>,
       <<textLength > MAX_TEXT_LENGTH, "ShipTextTooLong">>,
       <<links > MAX_LINKS, "TooManyLinks">>,
       <<Throttled(fid), "AlreadyShippedToday">> >>
FirstFailure(failures) ==
    LET failing == {i \in DOMAIN failures : failures[i][1]} IN
    IF failing = {} THEN "ok"
    ELSE failures[CHOOSE i \in failing : \A j \in failing : i <= j][2]

\* C16: when several of the gate's checks would fail, the error reported
\* is that of the first in the order MissingProjectReference,
\* InvalidProjectReference, InvalidFID, EmptyShipText, ShipTextTooShort,
\* ShipTextTooLong, TooManyLinks, AlreadyShippedToday; when none fails the
\* outcome is the ledger's.
C16_ErrorPrecedence ==
    \A fid \in GateFids \cup {0}, ref \in References,
       textLength \in TextLengths, links \in LinkCounts :
     \A uid \in UIDsFor(fid) \ {0} :
       LET expected == FirstFailure(GateFailures(ref, fid, textLength, links))
           r == onAttest(uid, ref.refUID, ref.project, fid, textLength, links) IN
       IF expected # "ok"
       THEN r.err = expected
       ELSE r.err = recordShip(Gate, fid, uid).err

\* C16 witness: the identity is throttled (admitted less than 24 hours
\* ago, on the previous epoch day) and an onAttest has just failed with
\* TooManyLinks, the earlier check, rather than AlreadyShippedToday.
C16_Witness ==
    /\ last.op = "onAttest"
    /\ last.err = "TooManyLinks"
    /\ Throttled(FID_ALICE)
    /\ Day(lastShipTimestamp[FID_ALICE]) # Day(now)

DocumentedMaxTextLength == 5000

\* C18: as the contract documentation and the resolver's tests state it: a
\* ship with a valid project reference, a non-zero identity, at most
\* MAX_LINKS links and no ship in the last 24 hours is accepted and
\* recorded whenever its text is non-empty and at most 5000 characters
\* long, and rejected with ShipTextTooLong when it is longer.
C18_DocumentedTextLength ==
    \A fid \in GateFids, ref \in References,
       textLength \in TextLengths, links \in LinkCounts :
     \A uid \in UIDsFor(fid) \ {0} :
       LET r == onAttest(uid, ref.refUID, ref.project, fid, textLength, links) IN
       (/\ ReferencePresent(ref)
        /\ ReferenceValid(ref)
        /\ LinksWithinBound(links)
        /\ ~Throttled(fid)
        /\ ~LedgerRefuses(fid))
       => (/\ (textLength >= 1 /\ textLength <= DocumentedMaxTextLength)
                => (/\ r.err = "ok"
                    /\ r.user.totalShips = userData[fid].totalShips + 1)
           /\ (textLength > DocumentedMaxTextLength)
                => r.err = "ShipTextTooLong")

\* C19: with the reference, identity and text checks passing, a ship with
\* more than MAX_LINKS = 10 links fails with TooManyLinks, with no ledger
\* call (no event) and no state change; a ship with 0 to 10 links, both
\* ends included, never fails with TooManyLinks and is admitted when the
\* throttle and the ledger pass.
C19_LinkCountBound ==
    /\ [](\A fid \in GateFids, ref \in References,
             textLength \in TextLengths, links \in LinkCounts :
           \A uid \in UIDsFor(fid) \ {0} :
             LET r == onAttest(uid, ref.refUID, ref.project, fid, textLength, links) IN
             /\ (/\ ReferencePresent(ref)
                 /\ ReferenceValid(ref)
                 /\ TextWithinBounds(textLength)
                 /\ links > MAX_LINKS)
                 => (r.err = "TooManyLinks" /\ r.events = <<>>)
             /\ (links <= MAX_LINKS) => (r.err # "TooManyLinks")
             /\ (/\ AllChecksPass(ref, fid, textLength, links)
                 /\ ~LedgerRefuses(fid))
                 => r.err = "ok")
    /\ [][(last'.op = "onAttest" /\ last'.err = "TooManyLinks")
            => UNCHANGED <<lastShipTimestamp, userData, authorizedResolvers>>]_vars

\* C19 witness: an onAttest for an identity that has never shipped, with
\* the gate authorized, has just failed with TooManyLinks: the link count
\* alone decided, and the ledger and the throttle are still empty.
C19_Witness ==
    /\ last.op = "onAttest"
    /\ last.err = "TooManyLinks"
    /\ last.events = <<>>
    /\ authorizedResolvers[Gate]
    /\ userData[FID_ALICE] = EmptyUser
    /\ lastShipTimestamp[FID_ALICE] = 0

\* C20: with the earlier checks passing, an onAttest for an identity whose
\* last admitted time is non-zero and less than 24 hours before now fails
\* with AlreadyShippedToday and changes nothing; at 24 hours or more,
\* exactly 24 hours included, it passes the throttle (and is admitted when
\* the ledger accepts).  The gate's lastShipTimestamp of an identity is
\* written only by an admission and then holds its time, and every
\* admission is at least 24 hours later than the value it replaces, so
\* any two admissions of one identity are at least 24 hours apart.
C20_GateThrottle ==
    /\ [](\A fid \in GateFids, ref \in References,
             textLength \in TextLengths, links \in LinkCounts :
           \A uid \in UIDsFor(fid) \ {0} :
             LET r == onAttest(uid, ref.refUID, ref.project, fid, textLength, links) IN
             (/\ ReferencePresent(ref)
              /\ ReferenceValid(ref)
              /\ TextWithinBounds(textLength)
              /\ LinksWithinBound(links))
             => (/\ (/\ lastShipTimestamp[fid] > 0
                     /\ now - lastShipTimestamp[fid] < MIN_SHIP_INTERVAL)
                     => (r.err = "AlreadyShippedToday" /\ r.events = <<>>)
                 /\ (/\ lastShipTimestamp[fid] > 0
                     /\ now - lastShipTimestamp[fid] >= MIN_SHIP_INTERVAL
                     /\ ~LedgerRefuses(fid))
                     => r.err = "ok"))
    /\ [][/\ (last'.op = "onAttest" /\ last'.err = "AlreadyShippedToday")
              => UNCHANGED <<lastShipTimestamp, userData, authorizedResolvers>>
          /\ \A fid \in Fids :
               (lastShipTimestamp'[fid] # lastShipTimestamp[fid])
               => (/\ last'.op = "onAttest"
                   /\ last'.err = "ok"
                   /\ lastShipTimestamp'[fid] = now
                   /\ (lastShipTimestamp[fid] > 0)
                        => (now - lastShipTimestamp[fid] >= MIN_SHIP_INTERVAL))
          /\ (last'.op = "onAttest" /\ last'.err = "ok")
              => \E fid \in GateFids :
                    /\ lastShipTimestamp'[fid] = now
                    /\ (lastShipTimestamp[fid] > 0)
                         => (now - lastShipTimestamp[fid] >= MIN_SHIP_INTERVAL)]_vars

\* C20 witness: the gate admitted the identity's ship late on the previous
\* epoch day, less than 24 hours ago; the ledger would accept a ship today,
\* but the gate's onAttest has just failed with AlreadyShippedToday.
C20_Witness ==
    /\ last.op = "onAttest"
    /\ last.err = "AlreadyShippedToday"
    /\ authorizedResolvers[Gate]
    /\ Throttled(FID_ALICE)
    /\ lastShipTimestamp[FID_ALICE] = userData[FID_ALICE].lastShipTimestamp
    /\ ~LedgerRecordedToday(FID_ALICE)

\* C21: getTimeUntilNextShip(fid) is 0 if the identity was never admitted
\* or at least 24 hours have passed since its last admission, and
\* otherwise 24 hours minus the time passed; it is 0 exactly when the
\* gate's hasShippedToday(fid) is false, which is exactly when the throttle
\* check of onAttest passes for the identity.
C21_TimeUntilNextShip ==
    \A fid \in QueryFids :
      LET lastAdmitted == lastShipTimestamp[fid]
          remaining == getTimeUntilNextShip(fid, now) IN
      /\ remaining = (IF lastAdmitted = 0 \/ now - lastAdmitted >= MIN_SHIP_INTERVAL
                      THEN 0
                      ELSE MIN_SHIP_INTERVAL - (now - lastAdmitted))
      /\ (remaining = 0) <=> (resolverHasShippedToday(fid, now) = FALSE)
      /\ (remaining = 0)
           <=> (validateShip(ValidReference.refUID, ValidReference.project, fid,
                             MIN_TEXT_LENGTH, 0) = "ok")
      /\ (last.op = "getTimeUntilNextShip" /\ last.fid = fid) => (last.ret = remaining)

\* C21 witness: the identity was admitted one second before the end of an
\* epoch day, and getTimeUntilNextShip called at the start of the next day
\* has just returned 24 hours less one second.
C21_Witness ==
    /\ last.op = "getTimeUntilNextShip"
    /\ last.ret = MIN_SHIP_INTERVAL - 1
    /\ Day(now) = Day(lastShipTimestamp[last.fid]) + 1

\* The streak of fid is reset by a gap at the current time: a ship is
\* recorded already, and now is neither on its epoch day nor on the next.
ResetByGap(fid) ==
    /\ userData[fid].lastShipTimestamp > 0
    /\ Day(now) # Day(userData[fid].lastShipTimestamp)
    /\ Day(now) # Day(userData[fid].lastShipTimestamp) + 1

\* The events of a successful recordShip(fid, uid) as the claim fixes them:
\* StreakBroken first if the streak is reset by a gap, then one
\* ShipRecorded carrying the streak stored by the call.
ExpectedLedgerEvents(fid, uid, storedStreak) ==
    (IF ResetByGap(fid)
     THEN <<StreakBroken(fid, userData[fid].currentStreak,
                         userData[fid].lastShipTimestamp)>>
     ELSE <<>>)
    \o <<ShipRecorded(fid, uid, now, storedStreak)>>

\* C23: a successful recordShip emits exactly one ShipRecorded(fid, uid,
\* now, s) with s the currentStreak stored by the call; StreakBroken is
\* emitted in that call iff the streak is reset by a gap (not on the first
\* ship, not on a consecutive day) and then precedes ShipRecorded; a
\* successful onAttest emits ShipCreated after the ledger's events; a
\* failed operation emits nothing.
C23_EventsOrdered ==
    /\ [](\A fid \in GateFids : \A uid \in UIDsFor(fid) \ {0} :
            LET r == recordShip(Writer, fid, uid) IN
            IF r.err = "ok"
            THEN r.events = ExpectedLedgerEvents(fid, uid, r.user.currentStreak)
            ELSE r.events = <<>>)
    /\ [](\A fid \in GateFids \cup {0}, ref \in References,
             textLength \in TextLengths, links \in LinkCounts :
           \A uid \in UIDsFor(fid) \ {0} :
             LET r == onAttest(uid, ref.refUID, ref.project, fid, textLength, links) IN
             IF r.err = "ok"
             THEN r.events = ExpectedLedgerEvents(fid, uid, r.user.currentStreak)
                             \o <<ShipCreated(fid, uid, ref.refUID, now)>>
             ELSE r.events = <<>>)
    /\ [][/\ (last'.err # "ok") => (last'.events = <<>>)
          /\ \A i \in DOMAIN last'.events :
               (last'.events[i].name = "ShipRecorded")
               => (last'.events[i].currentStreak
                     = userData'[last'.events[i].fid].currentStreak)]_vars

\* C23 witness: the gate has just admitted a ship after a gap, and the
\* receipt carries StreakBroken, ShipRecorded and ShipCreated in this order.
C23_Witness ==
    /\ last.op = "onAttest"
    /\ last.err = "ok"
    /\ Len(last.events) = 3
    /\ last.events[1].name = "StreakBroken"
    /\ last.events[2].name = "ShipRecorded"
    /\ last.events[3].name = "ShipCreated"
    /\ last.events[1].previousStreak = 2

Touched ==
    {f \in Fids : \/ userData'[f] # userData[f]
                  \/ lastShipTimestamp'[f] # lastShipTimestamp[f]}

\* C25: a recordShip or onAttest for identity A, successful or failed,
\* leaves the ledger record and the gate's throttle time of every other
\* identity B unchanged: a failed call touches no identity, a successful
\* one only the identity named in its ShipRecorded event.
C25_Isolation ==
    [][/\ \A fidA \in Fids : \A uid \in UIDsFor(fidA) \ {0} :
           \A textLength \in QueryTextLengths :
             (\/ (last'.op = "recordShip" /\ RecordShip(Writer, fidA, uid))
              \/ (last'.op = "onAttest"
                    /\ OnAttest(uid, ValidReference.refUID, ValidReference.project,
                                fidA, textLength, 0)))
             => Touched \subseteq {fidA}
       /\ (last'.op \in {"recordShip", "onAttest"})
           => IF last'.err = "ok"
              THEN \E i \in DOMAIN last'.events :
                     /\ last'.events[i].name = "ShipRecorded"
                     /\ Touched = {last'.events[i].fid}
              ELSE Touched = {}]_vars

\* C25 witness: both identities were admitted through the gate on the
\* current epoch day, the second one just now, and their streaks differ:
\* one identity is on its second consecutive day, the other on its first.
C25_Witness ==
    /\ last.op = "onAttest"
    /\ last.err = "ok"
    /\ \A f \in Fids : lastShipTimestamp[f] > 0 /\ Day(lastShipTimestamp[f]) = Day(now)
    /\ userData[FID_ALICE].currentStreak = 2
    /\ userData[FID_BOB].currentStreak = 1
    /\ userData[FID_BOB].totalShips = 1

\* s is a prefix of t.
IsPrefix(s, t) ==
    /\ Len(s) <= Len(t)
    /\ \A i \in 1..Len(s) : s[i] = t[i]

\* C26: shipUIDs is append-only: over every operation an identity's
\* shipUIDs before it is a prefix of shipUIDs after it; a successful
\* recordShip appends exactly its attestationUID as the last element; and
\* getShipUIDs returns the full sequence in admission order (the UIDs are
\* numbered in the order of the calls, so it is <<1, ..., n>> after n
\* admitted ships).
C26_AppendOnly ==
    /\ [](\A fid \in QueryFids :
            /\ getShipUIDs(fid) = [i \in 1..Len(shipDays[fid]) |-> i]
            /\ (last.op = "getShipUIDs" /\ last.fid = fid)
                 => (last.ret = [i \in 1..Len(shipDays[fid]) |-> i])
            /\ \A uid \in UIDsFor(fid) \ {0} :
                 LET r == recordShip(Writer, fid, uid) IN
                 (r.err = "ok")
                 => (r.user.shipUIDs = Append(userData[fid].shipUIDs, uid)))
    /\ [][\A fid \in Fids :
            /\ IsPrefix(userData[fid].shipUIDs, userData'[fid].shipUIDs)
            /\ Len(userData'[fid].shipUIDs) <= Len(userData[fid].shipUIDs) + 1
            /\ (userData'[fid].shipUIDs # userData[fid].shipUIDs)
                 => (last'.op \in {"recordShip", "onAttest"} /\ last'.err = "ok")]_vars

\* C26 witness: after three admitted ships getShipUIDs has just returned
\* the three attestation UIDs in the order of their admission.
C26_Witness ==
    /\ last.op = "getShipUIDs"
    /\ last.ret = <<1, 2, 3>>
    /\ userData[last.fid].totalShips = 3

\* C27: onRevoke fails with RevocationNotSupported for every attestation
\* in every state, and changes neither the gate's throttle times nor any
\* ledger record.
C27_RevocationNotSupported ==
    /\ [](\A uid \in RevokedUIDs :
            /\ onRevoke(uid).err = "RevocationNotSupported"
            /\ onRevoke(uid).events = <<>>)
    /\ [][(last'.op = "onRevoke")
            => (/\ last'.err = "RevocationNotSupported"
                /\ UNCHANGED <<lastShipTimestamp, userData, authorizedResolvers>>)]_vars

\* C27 witness: a revocation has just been refused while the identity has
\* a ship admitted through the gate, which is still recorded.
C27_Witness ==
    /\ last.op = "onRevoke"
    /\ last.err = "RevocationNotSupported"
    /\ lastShipTimestamp[FID_ALICE] > 0
    /\ userData[FID_ALICE].shipUIDs # <<>>

\* C28: getStreakData returns totalShips, lastShipTimestamp and
\* longestStreak exactly as stored, whatever time has passed, and its
\* currentStreak equals what getCurrentStreak returns for the same
\* identity at the same time.
C28_StreakData ==
    \A fid \in QueryFids :
      LET data == getStreakData(fid, now) IN
      /\ data.totalShips = userData[fid].totalShips
      /\ data.lastShipTimestamp = userData[fid].lastShipTimestamp
      /\ data.longestStreak = userData[fid].longestStreak
      /\ data.currentStreak = getCurrentStreak(fid, now)
      /\ (last.op = "getStreakData" /\ last.fid = fid) => (last.ret = data)

\* C28 witness: getStreakData has just reported a lapsed streak as 0
\* together with the stored total and longest streak of the identity.
C28_Witness ==
    /\ last.op = "getStreakData"
    /\ last.ret.currentStreak = 0
    /\ last.ret.totalShips = 1
    /\ last.ret.longestStreak = 1
    /\ last.ret.lastShipTimestamp = userData[last.fid].lastShipTimestamp
    /\ userData[last.fid].currentStreak = 1

C30_BackwardClock ==
    \A fid \in SkewFids :
      /\ userData[fid].totalShips = Len(userData[fid].shipUIDs)
      /\ userData[fid].longestStreak >= userData[fid].currentStreak
      /\ \A uid \in UIDsFor(fid) \ {0} :
            (/\ authorizedResolvers[Writer]
             /\ userData[fid].lastShipTimestamp > 0
             /\ Day(now) < Day(userData[fid].lastShipTimestamp))
            => LET r == recordShip(Writer, fid, uid) IN
               /\ r.err = "ok"
               /\ r.events = <<StreakBroken(fid, userData[fid].currentStreak,
                                            userData[fid].lastShipTimestamp),
                               ShipRecorded(fid, uid, now, 1)>>
               /\ r.user.currentStreak = 1
               /\ r.user.lastShipTimestamp = now
               /\ r.user.totalShips = Len(r.user.shipUIDs)
               /\ r.user.longestStreak >= r.user.currentStreak
               /\ r.user.longestStreak = userData[fid].longestStreak

\* C30 witness: a ship has just been recorded on an epoch day earlier than
\* the day of the ship before it; the call reported the broken streak of
\* 2, the stored streak is 1 and the longest streak is still 2.
C30_Witness ==
    /\ last.op = "recordShip"
    /\ last.err = "ok"
    /\ last.events[1].name = "StreakBroken"
    /\ last.events[1].previousStreak = 2
    /\ Day(last.events[1].lastShipTimestamp) > Day(now)
    /\ userData[FID_ALICE].currentStreak = 1
    /\ userData[FID_ALICE].longestStreak = 2
    /\ userData[FID_ALICE].totalShips = 3

\* The innermost call in progress is at its read of the registry and the
\* registry has not called back into the gate during this read.
AtRegistryRead ==
    /\ frames # <<>>
    /\ Top.pc = "registry"
    /\ ~Top.reentered

\* C22: when onAttest reads the external registry, the call in progress
\* has modified neither the gate's throttle times nor any ledger record;
\* a write of either happens only in a call whose checks have all passed
\* on the storage as it then was; and even when the registry read
\* re-enters onAttest for the same identity, one transaction admits at
\* most one ship of an identity, each admitted ship is at least 24 hours
\* after the identity's previous admission, and totalShips =
\* Len(shipUIDs), longestStreak >= currentStreak and one ship per epoch
\* day hold in every state, also inside a call.
C22_ChecksEffectsInteractions ==
    /\ [](AtRegistryRead
            => (/\ lastShipTimestamp = Top.saved.lastShipTimestamp
                /\ userData = Top.saved.userData))
    /\ [](\A fid \in ReentryFids :
            /\ userData[fid].totalShips = Len(userData[fid].shipUIDs)
            /\ userData[fid].longestStreak >= userData[fid].currentStreak
            /\ \A i, j \in DOMAIN shipDays[fid] :
                 (i < j) => (shipDays[fid][i] < shipDays[fid][j]))
    /\ [][/\ (/\ Len(frames') = Len(frames)
              /\ frames # <<>>
              /\ <<lastShipTimestamp, userData>>' # <<lastShipTimestamp, userData>>)
              => (/\ Top.pc \in {"validated", "written"}
                  /\ frames'[Len(frames)].pc = "written")
          /\ (/\ Len(frames') = Len(frames)
              /\ frames # <<>>
              /\ Top.pc = "registry"
              /\ frames'[Len(frames)].pc = "validated")
              => AllChecksPass(Top.ref, Top.fid, Top.textLength, Top.links)
          /\ (frames # <<>> /\ frames' = <<>>)
              => \A fid \in ReentryFids :
                   LET before == frames[1].saved IN
                   IF userData'[fid] = before.userData[fid]
                   THEN lastShipTimestamp'[fid] = before.lastShipTimestamp[fid]
                   ELSE /\ userData'[fid].totalShips
                            = before.userData[fid].totalShips + 1
                        /\ lastShipTimestamp'[fid] = now
                        /\ (before.lastShipTimestamp[fid] > 0)
                             => (now - before.lastShipTimestamp[fid]
                                   >= MIN_SHIP_INTERVAL)]_vars

\* C22 witness: the gate is authorized and has no admission on record,
\* yet the transaction has just failed with AlreadyShippedToday: a call
\* that re-entered during the registry read admitted the identity's ship,
\* the outer call then met the throttle, and its revert undid both.
C22_Witness ==
    /\ frames = <<>>
    /\ last.op = "onAttest"
    /\ last.err = "AlreadyShippedToday"
    /\ authorizedResolvers[Gate]
    /\ lastShipTimestamp[FID_ALICE] = 0
    /\ userData[FID_ALICE] = EmptyUser
\* C31: the ledger's write path looks only at epoch-day numbers.  With a last
\* ship anywhere in day d, a recordShip by an authorized writer at any time
\* of day d + 1 (one second after the midnight included) continues the streak
\* to currentStreak + 1 without StreakBroken, and one at any later time of
\* day d (one second before midnight included) fails AlreadyShippedToday.
C31_DayNumbersOnly ==
    \A fid \in Fids : \A uid \in UIDsFor(fid) \ {0} : \A sender \in Addrs :
      LET user == userData[fid]
          r == recordShip(sender, fid, uid) IN
      (authorizedResolvers[sender] /\ user.lastShipTimestamp > 0) =>
        /\ (Day(now) = Day(user.lastShipTimestamp) + 1) =>
              /\ r.err = "ok"
              /\ r.user.currentStreak = user.currentStreak + 1
              /\ r.user.lastShipTimestamp = now
              /\ CountEvents(r.events, "StreakBroken") = 0
        /\ (Day(now) = Day(user.lastShipTimestamp)) =>
              /\ r.err = "AlreadyShippedToday"
              /\ r.user = user

\* A second ship is refused one second before the midnight that ends the day
\* of a ship made at 00:00:00.
C31_Witness ==
    /\ last.op = "recordShip"
    /\ last.err = "AlreadyShippedToday"
    /\ \E fid \in Fids :
          /\ userData[fid].lastShipTimestamp > 0
          /\ now - userData[fid].lastShipTimestamp = ONE_DAY - 1

\* C32: the read path and the write path agree.  Whenever getCurrentStreak(fid)
\* returns v > 0 and the ledger's hasShippedToday(fid) is false, a recordShip
\* by an authorized writer at that moment succeeds without StreakBroken and
\* stores currentStreak = v + 1; whenever getCurrentStreak(fid) returns 0 for
\* an identity with lastShipTimestamp > 0, recordShip emits StreakBroken.
C32_ReadWriteAgree ==
    \A fid \in Fids : \A uid \in UIDsFor(fid) \ {0} : \A sender \in Addrs :
      LET v == getCurrentStreak(fid, now)
          r == recordShip(sender, fid, uid) IN
      authorizedResolvers[sender] =>
        /\ (v > 0 /\ ~hasShippedToday(fid, now)) =>
              /\ r.err = "ok"
              /\ CountEvents(r.events, "StreakBroken") = 0
              /\ r.user.currentStreak = v + 1
        /\ (v = 0 /\ userData[fid].lastShipTimestamp > 0) =>
              /\ r.err = "ok"
              /\ CountEvents(r.events, "StreakBroken") = 1

(***************************************************************************)
(* The gate as the only writer of the ledger: the deployment of the        *)
(* resolver's test setUp, where no other address is ever authorized.  The  *)
(* owner may authorize the gate and take the authorization back; ships of  *)
(* one identity arrive through onAttest only.                              *)
(***************************************************************************)
MaxSoleDay == 4
SoleTimePoints == DayPoints(MaxSoleDay)

SoleNext ==
    \/ \E t \in SoleTimePoints : Warp(t)
    \/ \E caller \in Addrs, authorized \in BOOLEAN :
          SetResolverAuthorization(caller, Gate, authorized)
    \/ \E fid \in GateFids \cup {0}, ref \in References, textLength \in QueryTextLengths :
          \E uid \in UIDsFor(fid) \ {0} :
          OnAttest(uid, ref.refUID, ref.project, fid, textLength, 0)
    \/ \E fid \in GateFids : ResolverHasShippedToday(fid)
    \/ \E fid \in GateFids : HasShippedToday(fid)
    \/ \E fid \in GateFids : GetCurrentStreak(fid)

SoleSpec == Init /\ [][SoleNext]_vars

C34_ThrottleMirrorsLedger ==
    /\ [](\A fid \in GateFids :
            /\ lastShipTimestamp[fid] = userData[fid].lastShipTimestamp
            /\ (Len(shipDays[fid]) = 0) <=> (lastShipTimestamp[fid] = 0)
            /\ (Len(shipDays[fid]) > 0) =>
                  Day(lastShipTimestamp[fid]) = shipDays[fid][Len(shipDays[fid])])
    /\ [][(last'.op = "onAttest" /\ last'.err = "ok") =>
            \E fid \in GateFids :
              /\ Len(shipDays'[fid]) = Len(shipDays[fid]) + 1
              /\ lastShipTimestamp'[fid] = now
              /\ userData'[fid].lastShipTimestamp = now]_vars

\* A second admission has just moved both times to the present.
C34_Witness ==
    /\ last.op = "onAttest"
    /\ last.err = "ok"
    /\ \E fid \in GateFids :
          /\ Len(shipDays[fid]) = 2
          /\ lastShipTimestamp[fid] = now
          /\ userData[fid].lastShipTimestamp = now

\* C35: when the gate is the only authorized writer and the clock does not go
\* back, the ledger's same-day rejection is unreachable through onAttest:
\* whenever the gate's checks (the 24h throttle included) pass, the present
\* is on another epoch day than the identity's last event, so recordShip
\* inside onAttest never fails with AlreadyShippedToday, and an onAttest that
\* fails with that error was stopped by the gate's throttle.
C35_SameDayRejectionUnreachable ==
    /\ [](\A fid \in GateFids, ref \in References, textLength \in QueryTextLengths :
            \A uid \in UIDsFor(fid) \ {0} :
              (validateShip(ref.refUID, ref.project, fid, textLength, 0) = "ok") =>
                /\ ~LedgerRecordedToday(fid)
                /\ recordShip(Gate, fid, uid).err \in {"ok", "UnauthorizedResolver"}
                /\ authorizedResolvers[Gate] =>
                      onAttest(uid, ref.refUID, ref.project, fid, textLength, 0).err = "ok")
    /\ [][(last'.op = "onAttest" /\ last'.err = "AlreadyShippedToday") =>
            \E fid \in GateFids : Throttled(fid)]_vars

\* The gate has refused a ship on the epoch day of the last event, the one
\* the ledger would have refused too.
C35_Witness ==
    /\ last.op = "onAttest"
    /\ last.err = "AlreadyShippedToday"
    /\ authorizedResolvers[Gate]
    /\ \E fid \in GateFids :
          /\ Throttled(fid)
          /\ LedgerRecordedToday(fid)
          /\ now > userData[fid].lastShipTimestamp

\* C36: a streak can always be continued through the gate.  When the gate is
\* the only authorized writer and an identity was last admitted at time t, an
\* onAttest with valid inputs at t + 24h is admitted, falls on epoch day
\* day(t) + 1 and stores currentStreak + 1 without emitting StreakBroken.
C36_ContinueThroughGate ==
    /\ [](\A fid \in GateFids : \A uid \in UIDsFor(fid) \ {0} :
            LET t == lastShipTimestamp[fid]
                r == onAttest(uid, ValidReference.refUID, ValidReference.project,
                              fid, MIN_TEXT_LENGTH, 0) IN
            (authorizedResolvers[Gate] /\ t > 0 /\ now = t + MIN_SHIP_INTERVAL) =>
               /\ r.err = "ok"
               /\ Day(now) = Day(t) + 1
               /\ r.user.currentStreak = userData[fid].currentStreak + 1
               /\ r.user.lastShipTimestamp = now
               /\ CountEvents(r.events, "StreakBroken") = 0
               /\ CountEvents(r.events, "ShipRecorded") = 1)
    /\ [][\A fid \in GateFids :
            (/\ last'.op = "onAttest"
             /\ last'.err = "ok"
             /\ lastShipTimestamp[fid] > 0
             /\ now = lastShipTimestamp[fid] + MIN_SHIP_INTERVAL
             /\ lastShipTimestamp'[fid] = now) =>
               /\ userData'[fid].currentStreak = userData[fid].currentStreak + 1
               /\ CountEvents(last'.events, "StreakBroken") = 0]_vars

\* A ship admitted at 00:00:00 has continued the streak of the day before:
\* the earlier ship was admitted at 00:00:00 too, exactly 24h earlier, since
\* one admitted at 23:59:59 would still throttle the identity.
C36_Witness ==
    /\ last.op = "onAttest"
    /\ last.err = "ok"
    /\ CountEvents(last.events, "StreakBroken") = 0
    /\ now % ONE_DAY = 0
    /\ \E fid \in GateFids :
          /\ lastShipTimestamp[fid] = now
          /\ userData[fid].currentStreak = 2
          /\ Len(shipDays[fid]) = 2
          /\ shipDays[fid][1] + 1 = Day(now)

\* C37: the zero sentinels of an identity's record go together.  For every
\* identity, lastShipTimestamp = 0 iff totalShips = 0 iff currentStreak = 0
\* iff longestStreak = 0 iff shipUIDs is empty; after any admitted ship
\* currentStreak >= 1 and lastShipTimestamp is the positive time of the
\* latest admitted ship.
C37_SentinelConsistency ==
    /\ [](\A fid \in Fids :
            LET user == userData[fid]
                unseen == (user.lastShipTimestamp = 0) IN
            /\ unseen <=> (user.totalShips = 0)
            /\ unseen <=> (user.currentStreak = 0)
            /\ unseen <=> (user.longestStreak = 0)
            /\ unseen <=> (user.shipUIDs = <<>>)
            /\ unseen <=> (shipDays[fid] = <<>>)
            /\ unseen => (user = EmptyUser)
            /\ ~unseen =>
                  /\ user.currentStreak >= 1
                  /\ user.lastShipTimestamp > 0
                  /\ user.lastShipTimestamp <= now
                  /\ Day(user.lastShipTimestamp) = shipDays[fid][Len(shipDays[fid])])
    /\ [][(last'.op = "recordShip" /\ last'.err = "ok") =>
            \E fid \in Fids :
              /\ Len(shipDays'[fid]) = Len(shipDays[fid]) + 1
              /\ userData'[fid].lastShipTimestamp = now
              /\ now > 0
              /\ userData'[fid].currentStreak >= 1]_vars

\* One identity has been reset to a streak of 1 by a ship after a gap while
\* the other has never shipped.
C37_Witness ==
    /\ last.op = "recordShip"
    /\ last.err = "ok"
    /\ CountEvents(last.events, "StreakBroken") = 1
    /\ \E fid \in Fids, other \in Fids :
          /\ userData[fid].lastShipTimestamp = now
          /\ userData[fid].currentStreak = 1
          /\ userData[fid].totalShips = 2
          /\ userData[other] = EmptyUser

\* Identities no writer has ever named: the zero identity and those of Fids
\* that the view-call model never ships for.
NeverSeen == (Fids \ QueryFids) \cup {0, FID_BOB + 1}

\* C38: with a non-decreasing clock the queries never fail.  No stored time
\* lies in the future, so no checked subtraction underflows, and
\* getCurrentStreak, getStreakData, both hasShippedToday and
\* getTimeUntilNextShip return a value for every identity: 0 or false for an
\* identity never seen, and getTimeUntilNextShip always within 0..24h.
C38_QueriesNeverFail ==
    /\ \A fid \in QueryFids :
          /\ userData[fid].lastShipTimestamp <= now
          /\ lastShipTimestamp[fid] <= now
    /\ \A fid \in QueryFids \cup NeverSeen :
          /\ getCurrentStreak(fid, now) \in Nat
          /\ getStreakData(fid, now).currentStreak = getCurrentStreak(fid, now)
          /\ getStreakData(fid, now).totalShips = Len(getShipUIDs(fid))
          /\ hasShippedToday(fid, now) \in BOOLEAN
          /\ resolverHasShippedToday(fid, now) \in BOOLEAN
          /\ getTimeUntilNextShip(fid, now) \in 0..MIN_SHIP_INTERVAL
    /\ \A fid \in NeverSeen :
          /\ getCurrentStreak(fid, now) = 0
          /\ getStreakData(fid, now) =
                [currentStreak |-> 0, totalShips |-> 0, lastShipTimestamp |-> 0,
                 longestStreak |-> 0]
          /\ hasShippedToday(fid, now) = FALSE
          /\ resolverHasShippedToday(fid, now) = FALSE
          /\ getTimeUntilNextShip(fid, now) = 0
    /\ last.op \in {"getStreakData", "hasShippedToday", "resolver.hasShippedToday",
                    "getTimeUntilNextShip", "getShipUIDs"} => last.err = "ok"

\* getTimeUntilNextShip has answered in the block of the admission itself,
\* where the subtraction yields 0 and the answer is the full 24h.
C38_Witness ==
    /\ last.op = "getTimeUntilNextShip"
    /\ last.ret = MIN_SHIP_INTERVAL
    /\ lastShipTimestamp[last.fid] = now
    /\ userData[last.fid].lastShipTimestamp = now

(***************************************************************************)
(* The client's calculateStreak(ships) of lib/types.ts, one loop iteration *)
(* per step.  A Date is its time value (seconds here; the milliseconds     *)
(* play no part) or the Invalid Date, whose time value is NaN.  A ship is  *)
(* its createdAt.  Local time is taken without offset and without          *)
(* daylight-saving changes, so that every calendar day has ONE_DAY         *)
(* seconds.  The running call is the only frame; block.timestamp stands    *)
(* for the client's clock.                                                 *)
(***************************************************************************)
MaxClientDay == 3
MaxClientShips == 3
ClientTimePoints == DayPoints(MaxClientDay)

InvalidDate == [valid |-> FALSE, time |-> 0]
DateOf(t) == [valid |-> TRUE, time |-> t]
ClientDates == {DateOf(t) : t \in ClientTimePoints} \cup {InvalidDate}

ShipLists ==
    UNION {[1..n -> ClientDates] : n \in 0..MaxClientShips}

\* date.setHours(0, 0, 0, 0): the local midnight of the date's day; an
\* Invalid Date stays invalid.
setHoursZero(date) ==
    IF date.valid THEN DateOf(date.time - (date.time % ONE_DAY)) ELSE InvalidDate

\* date.setDate(date.getDate() - 1) on a local midnight: the midnight of the
\* day before; an Invalid Date stays invalid.
setDatePrevious(date) ==
    IF date.valid THEN DateOf(date.time - ONE_DAY) ELSE InvalidDate

\* a < b on Dates: the time values are compared, and every comparison with
\* NaN is false.
DateLess(a, b) == a.valid /\ b.valid /\ a.time < b.time

\* The ships that [...ships].sort(b.createdAt - a.createdAt) may put first:
\* a latest one, and any one when the comparator meets a NaN (the order
\* of an inconsistent comparator is implementation-defined).
sortedShipsFirst(ships) ==
    IF \A i \in DOMAIN ships : ships[i].valid
    THEN {ships[i] : i \in {j \in DOMAIN ships :
                               \A k \in DOMAIN ships : ships[k].time <= ships[j].time}}
    ELSE {ships[i] : i \in DOMAIN ships}

\* new Set(sortedShips.map(day => midnight time value)); Set.has finds NaN.
shipDaySet(ships) == {setHoursZero(ships[i]) : i \in DOMAIN ships}

StreakFrame(pc, ships, streak, currentDay, ret) ==
    [fn |-> "calculateStreak", pc |-> pc, ships |-> ships, today |-> now,
     streak |-> streak, currentDay |-> currentDay, ret |-> ret]

\* streak++ on an IEEE double stops growing at 2^53, where streak + 1 is
\* streak again; the cap stands for that value.  An iteration at the cap
\* changes nothing, in the code as here: the loop goes on in the same state.
MaxStreakCount == MaxClientShips + 1
Increment(streak) == IF streak < MaxStreakCount THEN streak + 1 ELSE streak

\* A call of calculateStreak(ships) about to run, for each list of ships
\* and each time of the client's clock.
ClientInit ==
    /\ now \in ClientTimePoints
    /\ userData = [f \in Fids |-> EmptyUser]
    /\ authorizedResolvers = [a \in Addrs |-> FALSE]
    /\ lastShipTimestamp = [f \in Fids |-> 0]
    /\ last = Receipt("deploy", 0, "ok", <<>>, 0)
    /\ shipDays = [f \in Fids |-> <<>>]
    /\ maxWritten = [f \in Fids |-> 0]
    /\ \E ships \in ShipLists :
          frames = <<StreakFrame("call", ships, 0, InvalidDate, 0)>>

\* calculateStreak up to the loop: the empty list, the sort, today,
\* mostRecentDay, yesterday and the return of 0 for a lapsed streak.
CalculateStreakCall(first) ==
    /\ Top.pc = "call"
    /\ IF Len(Top.ships) = 0
       THEN /\ frames' = <<[Top EXCEPT !.pc = "done"]>>
            /\ last' = Receipt("calculateStreak", 0, "ok", <<>>, 0)
       ELSE /\ first \in sortedShipsFirst(Top.ships)
            /\ LET today == setHoursZero(DateOf(now))
                   mostRecentDay == setHoursZero(first)
                   yesterday == setDatePrevious(today) IN
               IF DateLess(mostRecentDay, yesterday)
               THEN /\ frames' = <<[Top EXCEPT !.pc = "done",
                                               !.currentDay = mostRecentDay]>>
                    /\ last' = Receipt("calculateStreak", 0, "ok", <<>>, 0)
               ELSE /\ frames' = <<[Top EXCEPT !.pc = "loop", !.streak = 1,
                                               !.currentDay = mostRecentDay]>>
                    /\ last' = Receipt("calculateStreak.enter", 0, "ok", <<>>, 0)
    /\ UNCHANGED <<now, userData, authorizedResolvers, lastShipTimestamp, shipDays,
                   maxWritten>>

\* One iteration of while (true): the day before currentDay is looked up in
\* shipDays; found, the streak grows and the loop goes on; else the loop
\* breaks and the streak is returned.
CalculateStreakLoop ==
    /\ frames # <<>>
    /\ Top.pc = "loop"
    /\ LET prevDay == setDatePrevious(Top.currentDay) IN
       IF prevDay \in shipDaySet(Top.ships)
       THEN /\ frames' = <<[Top EXCEPT !.streak = Increment(@), !.currentDay = prevDay]>>
            /\ last' = Receipt("calculateStreak.loop", 0, "ok", <<>>, 0)
       ELSE /\ frames' = <<[Top EXCEPT !.pc = "done", !.ret = Top.streak]>>
            /\ last' = Receipt("calculateStreak", 0, "ok", <<>>, Top.streak)
    /\ UNCHANGED <<now, userData, authorizedResolvers, lastShipTimestamp, shipDays,
                   maxWritten>>

ClientNext ==
    \/ \E first \in ClientDates : CalculateStreakCall(first)
    \/ CalculateStreakLoop

\* A call keeps being executed until it returns.
ClientSpec == ClientInit /\ [][ClientNext]_vars /\ WF_vars(ClientNext)

ValidShips(ships) == \A i \in DOMAIN ships : ships[i].valid

CalendarDays(ships) == {Day(ships[i].time) : i \in DOMAIN ships}

\* The length of the maximal run of consecutive calendar days of days that
\* ends at day d.
RunEndingAt(days, d) ==
    Cardinality({k \in 1..Cardinality(days) : \A j \in 0..(k - 1) : (d - j) \in days})

\* What the claim expects of calculateStreak(ships) called at time t.
ExpectedStreak(ships, t) ==
    IF Len(ships) = 0 THEN 0
    ELSE LET days == CalendarDays(ships)
             mostRecent == CHOOSE d \in days : \A e \in days : e <= d IN
         IF mostRecent < Day(t) - 1 THEN 0 ELSE RunEndingAt(days, mostRecent)

\* For lists of ships with valid dates calculateStreak returns, and returns
\* the expected streak.
ValidDatesStreak ==
    /\ ValidShips(Top.ships) => <>(Top.pc = "done")
    /\ []((Top.pc = "done" /\ ValidShips(Top.ships)) =>
            Top.ret = ExpectedStreak(Top.ships, now))

====
